---- MODULE Spec2Model ----
(***************************************************************************)
(* Event-sourced aggregate persistence: the AggregateRepository unit of    *)
(* work, AggregateModel.persist, the event store, the notification bus,    *)
(* temporal replay, and the WineLot / Action use cases built on them.      *)
(*                                                                         *)
(* Time is counted in ticks, TicksPerSecond ticks to a second, so that a   *)
(* timestamp can carry a sub-second part.  Identifiers (ULIDs) are drawn   *)
(* from one increasing counter.  Volumes are integers.                     *)
(***************************************************************************)
EXTENDS Integers, Sequences, FiniteSets, TLC

\* ------------------------------------------------------------------ bounds
Procs == {1, 2}
MaxOps == 3
MaxTime == 4
TicksPerSecond == 2
Volumes == {1, 2}

\* --------------------------------------------------------------- constants
NoTime == -1
NoSeq == 0
NoId == 0
Epoch == 0
FutureMargin == 2
Subscribers == <<"s1", "s2">>

VARIABLES
    now,        \* the clock (timezone.now()), in ticks
    nextId,     \* the next ULID
    nextRid,    \* the event-store tables' auto-increment id
    nextEv,     \* identity of the next event object created by apply
    dbRows,     \* committed aggregate rows: id -> row
    dbEvents,   \* committed event-store rows
    pc,         \* per process: where its unit of work stands
    idx,        \* per process: loop position inside AggregateRepository.persist
    repo,       \* per process: the AggregateRepository singleton
    heap,       \* per process: the aggregate instances the repository refers to
    tx,         \* per process: the open database transaction
    err,        \* per process: the exception in flight
    result,     \* per process: how the last unit of work ended
    ops,        \* per process: operations started so far
    call,       \* per process: the operation in progress (or last run)
    snap,       \* per process: the committed database when the scope was entered
    loaded,     \* per process: id -> version of the rows fetched in the scope
    raced,      \* per process: ids fetched at a version a peer's open scope fetched too
    delivered,  \* notifications handled by subscribers, in order
    trace       \* per process: the steps persist() has performed in this scope

vars == <<now, nextId, nextRid, nextEv, dbRows, dbEvents, pc, idx, repo, heap, tx,
          err, result, ops, call, snap, loaded, raced, delivered, trace>>

\* ----------------------------------------------------------------- helpers
\* a mutant of Trunc: the sub-second part is kept
KeepSubSecond(t) == t

\* datetime.replace(microsecond=0), on a time in ticks
Trunc(t) == t - (t % TicksPerSecond)

Range(s) == {s[i] : i \in 1..Len(s)}

Has(f, k) == k \in DOMAIN f

Put(f, k, v) == IF k \in DOMAIN f THEN [f EXCEPT ![k] = v] ELSE f @@ (k :> v)

\* ------------------------------------------------------------------ events
WineLotCreated(n, id) ==
    [n |-> n, agg |-> id, store |-> "lot", kind |-> "WineLotCreated",
     at |-> Epoch, seq |-> NoSeq, vol |-> 0, lot |-> NoId, eff |-> NoTime]

WineLotDeleted(n, id, at) ==
    [n |-> n, agg |-> id, store |-> "lot", kind |-> "WineLotDeleted",
     at |-> at, seq |-> NoSeq, vol |-> 0, lot |-> NoId, eff |-> NoTime]

VolumeReceived(n, id, action, at, vol) ==
    [n |-> n, agg |-> id, store |-> "lot", kind |-> "VolumeReceived",
     at |-> at, seq |-> action, vol |-> vol, lot |-> NoId, eff |-> NoTime]

ActionRecorded(n, id, eff, lot, vol) ==
    [n |-> n, agg |-> id, store |-> "action", kind |-> "ActionRecorded",
     at |-> NoTime, seq |-> NoSeq, vol |-> vol, lot |-> lot, eff |-> eff]

ActionEdited(n, id, at, lot, vol) ==
    [n |-> n, agg |-> id, store |-> "action", kind |-> "ActionEdited",
     at |-> NoTime, seq |-> NoSeq, vol |-> vol, lot |-> lot, eff |-> at]

\* Action.record_blend's event: the receiving lot, the blended volume and the
\* volume taken from each source lot
BlendRecorded(n, id, eff, lot, vol, volumes) ==
    [n |-> n, agg |-> id, store |-> "action", kind |-> "ActionRecorded",
     at |-> NoTime, seq |-> NoSeq, vol |-> vol, lot |-> lot, eff |-> eff,
     type |-> "BLEND", volumes |-> volumes]

ActionDeleted(n, id, at) ==
    [n |-> n, agg |-> id, store |-> "action", kind |-> "ActionDeleted",
     at |-> NoTime, seq |-> NoSeq, vol |-> 0, lot |-> NoId, eff |-> at]

VolumeMoved(n, id, action, at, vol, to) ==
    [n |-> n, agg |-> id, store |-> "lot", kind |-> "VolumeMoved",
     at |-> at, seq |-> action, vol |-> vol, lot |-> to, eff |-> NoTime]

VolumeBlended(n, id, action, at, vol, volumes) ==
    [n |-> n, agg |-> id, store |-> "lot", kind |-> "VolumeBlended",
     at |-> at, seq |-> action, vol |-> vol, lot |-> NoId, eff |-> NoTime,
     volumes |-> volumes]

\* --------------------------------------------------------------- instances
NewWineLot ==
    [type |-> "lot", id |-> NoId, version |-> 0, adding |-> TRUE, backdating |-> FALSE,
     recorded |-> <<>>, volume |-> 0, deleted_at |-> NoTime]

NewAction ==
    [type |-> "action", id |-> NoId, version |-> 0, adding |-> TRUE, backdating |-> FALSE,
     recorded |-> <<>>, effective_at |-> NoTime, action_type |-> "", lot |-> NoId,
     vol |-> 0, volumes |-> <<>>, revision_number |-> 0, deleted_at |-> NoTime,
     updated_at |-> NoTime]

New(type) == IF type = "lot" THEN NewWineLot ELSE NewAction

\* Model.objects.filter(id=...).first(): an instance carrying the row's fields
FromRow(row) ==
    IF row.type = "lot"
    THEN [NewWineLot EXCEPT !.id = row.id, !.version = row.version, !.adding = FALSE,
                            !.volume = row.volume, !.deleted_at = row.deleted_at]
    ELSE [NewAction EXCEPT !.id = row.id, !.version = row.version, !.adding = FALSE,
                           !.effective_at = row.effective_at,
                           !.action_type = row.action_type, !.lot = row.lot,
                           !.vol = row.vol, !.volumes = row.volumes,
                           !.revision_number = row.revision_number,
                           !.deleted_at = row.deleted_at, !.updated_at = row.updated_at]

\* save(force_insert=True): every field of the instance
InsertRow(inst) ==
    IF inst.type = "lot"
    THEN [type |-> "lot", id |-> inst.id, version |-> inst.version,
          volume |-> inst.volume, deleted_at |-> inst.deleted_at]
    ELSE [type |-> "action", id |-> inst.id, version |-> inst.version,
          effective_at |-> inst.effective_at, action_type |-> inst.action_type,
          lot |-> inst.lot, vol |-> inst.vol, volumes |-> inst.volumes,
          revision_number |-> inst.revision_number,
          deleted_at |-> inst.deleted_at, updated_at |-> inst.updated_at]

\* a mutant of UpdateRow: the update also writes the version column
UpdateRowAlsoVersion(row, inst) == InsertRow(inst)

\* .update(**{editable fields}): id and version are declared editable=False
UpdateRow(row, inst) == [InsertRow(inst) EXCEPT !.version = row.version]

Identity(inst) ==
    [New(inst.type) EXCEPT !.id = inst.id, !.version = inst.version, !.adding = FALSE]

MarkForBackdating(inst) == [inst EXCEPT !.backdating = TRUE]

\* Action.apply_action_edited
apply_action_edited(inst, e) ==
    [inst EXCEPT !.revision_number = @ + 1, !.updated_at = e.eff,
                 !.lot = e.lot, !.vol = e.vol,
                 !.volumes = IF Has(e, "volumes") THEN e.volumes ELSE <<>>]

\* apply_<kind>
ApplyEvent(inst, e) ==
    CASE e.kind = "WineLotCreated" -> [inst EXCEPT !.id = e.agg]
      [] e.kind = "WineLotDeleted" -> [inst EXCEPT !.deleted_at = e.at]
      [] e.kind = "VolumeReceived" -> [inst EXCEPT !.volume = @ + e.vol]
      [] e.kind = "VolumeBlended" -> [inst EXCEPT !.volume = @ + e.vol]
      [] e.kind = "VolumeMoved" -> [inst EXCEPT !.volume = @ - e.vol]
      [] e.kind = "ActionRecorded" ->
            [inst EXCEPT !.id = e.agg, !.effective_at = e.eff, !.deleted_at = NoTime,
                         !.revision_number = 0,
                         !.action_type = IF Has(e, "type") THEN e.type
                                         ELSE "RECEIVE_VOLUME",
                         !.lot = e.lot, !.vol = e.vol,
                         !.volumes = IF Has(e, "volumes") THEN e.volumes ELSE <<>>]
      [] e.kind = "ActionEdited" -> apply_action_edited(inst, e)
      [] e.kind = "ActionDeleted" -> [inst EXCEPT !.deleted_at = e.eff]

\* a mutant of LoadEvent: load records the event as apply does
LoadAndRecord(inst, e) == [ApplyEvent(inst, e) EXCEPT !.recorded = Append(@, e)]

\* load(event) when it returns: the state after apply_<kind> (LoadError tells
\* when it raises instead)
LoadEvent(inst, e) == ApplyEvent(inst, e)

\* -------------------------------------------------------------- repository
EmptyRepo ==
    [events |-> <<>>, keys |-> <<>>, newEv |-> <<>>, stores |-> <<>>, deleted |-> <<>>]

\* d[k] += items on a defaultdict(list) kept as a sequence of [k, v] in insertion order
DictAppend(d, k, items) ==
    IF \E i \in 1..Len(d) : d[i].k = k
    THEN [i \in 1..Len(d) |-> IF d[i].k = k THEN [d[i] EXCEPT !.v = @ \o items] ELSE d[i]]
    ELSE Append(d, [k |-> k, v |-> items])

\* a mutant of RepoAdd: the notification list is built newest first
RepoAddNewestFirst(r, inst) ==
    LET new_events == IF Has(r.newEv, inst.id) THEN r.newEv[inst.id] ELSE <<>>
        added == SubSeq(inst.recorded, Len(new_events) + 1, Len(inst.recorded))
    IN  [events |-> added \o r.events,
         keys |-> IF inst.id \in Range(r.keys) THEN r.keys ELSE Append(r.keys, inst.id),
         newEv |-> Put(r.newEv, inst.id, new_events \o added),
         stores |-> DictAppend(r.stores, inst.type, added),
         deleted |-> DictAppend(r.deleted, inst.type, <<>>)]

\* AggregateRepository.add
RepoAdd(r, inst) ==
    LET new_events == IF Has(r.newEv, inst.id) THEN r.newEv[inst.id] ELSE <<>>
        added == SubSeq(inst.recorded, Len(new_events) + 1, Len(inst.recorded))
    IN  [events |-> r.events \o added,
         keys |-> IF inst.id \in Range(r.keys) THEN r.keys ELSE Append(r.keys, inst.id),
         newEv |-> Put(r.newEv, inst.id, new_events \o added),
         stores |-> DictAppend(r.stores, inst.type, added),
         deleted |-> DictAppend(r.deleted, inst.type, <<>>)]

\* AggregateRepository.mark_aggregate_event_edited
RepoMarkEdited(r, inst, row) ==
    [r EXCEPT !.keys = IF inst.id \in Range(r.keys) THEN @ ELSE Append(@, inst.id),
              !.newEv = IF Has(@, inst.id) THEN @ ELSE Put(@, inst.id, <<>>),
              !.deleted = DictAppend(@, row.store, <<row>>)]

\* AggregateModel.apply, up to the repository: load, then record the event
ApplyInst(inst, e) == [LoadEvent(inst, e) EXCEPT !.recorded = Append(@, e)]

\* _validate_event_context: the exception of validate_<kind>_context, "" when
\* the aggregate has no such function or the function returns
ValidationError(inst, e) ==
    IF inst.type = "lot" /\ e.kind = "VolumeMoved" /\ inst.volume - e.vol < 0
    THEN "ValueError" ELSE ""

\* hasattr(self, "apply_<kind>")
Handles(inst, e) ==
    IF inst.type = "lot"
    THEN e.kind \in {"WineLotCreated", "WineLotDeleted", "VolumeReceived",
                     "VolumeBlended", "VolumeMoved"}
    ELSE e.kind \in {"ActionRecorded", "ActionEdited", "ActionDeleted"}

\* the exception load(event) ends with, "" when it returns
LoadError(inst, e) ==
    IF ValidationError(inst, e) # "" THEN ValidationError(inst, e)
    ELSE IF ~Handles(inst, e) THEN "NotImplementedError"
    ELSE ""

\* identity._persistable = False: the instance is a view
View(inst) == [persistable |-> FALSE] @@ inst

\* a mutant of IsPersistable: a view counts as persistable
IsPersistableAlways(inst) == TRUE

\* AggregateModel.is_persistable
IsPersistable(inst) == IF Has(inst, "persistable") THEN inst.persistable ELSE TRUE

\* a mutant of Apply: the event is recorded and registered before load fails
ApplyRecordsFirst(r, inst, e) ==
    LET recorded == [inst EXCEPT !.recorded = Append(@, e)]
        registered == IF IsPersistable(inst) THEN RepoAdd(r, recorded) ELSE r
        applied == ApplyInst(inst, e)
    IN  IF LoadError(inst, e) # ""
        THEN [inst |-> recorded, repo |-> registered, err |-> LoadError(inst, e)]
        ELSE [inst |-> applied, err |-> "",
              repo |-> IF IsPersistable(applied) THEN RepoAdd(r, applied) ELSE r]

\* AggregateModel.apply: the instance, the repository and the exception after it
Apply(r, inst, e) ==
    LET applied == ApplyInst(inst, e)
    IN  IF LoadError(inst, e) # ""
        THEN [inst |-> inst, repo |-> r, err |-> LoadError(inst, e)]
        ELSE [inst |-> applied, err |-> "",
              repo |-> IF IsPersistable(applied) THEN RepoAdd(r, applied) ELSE r]

\* AggregateModel.load: the instance and the exception after it
Load(inst, e) ==
    IF LoadError(inst, e) # "" THEN [inst |-> inst, err |-> LoadError(inst, e)]
    ELSE [inst |-> LoadEvent(inst, e), err |-> ""]

\* AggregateModel.persist on its own: the instance, the rows and the exception
PersistInst(inst, rows) ==
    LET inserted == [inst EXCEPT !.version = 1, !.adding = FALSE]
        bumped == [inst EXCEPT !.version = @ + 1]
    IN  IF ~IsPersistable(inst)
        THEN [inst |-> inst, rows |-> rows, err |-> "CannotPersistAggregateView"]
        ELSE IF inst.adding
        THEN [inst |-> inserted, rows |-> Put(rows, inst.id, InsertRow(inserted)),
              err |-> ""]
        ELSE IF Has(rows, inst.id) /\ rows[inst.id].version = inst.version
        THEN [inst |-> bumped, err |-> "",
              rows |-> Put(rows, inst.id, UpdateRow(rows[inst.id], bumped))]
        ELSE [inst |-> bumped, rows |-> rows, err |-> "OutOfDateVersion"]

\* ------------------------------------------------------------- event store
\* a mutant of StoreRow: every row is stamped with the time of the insert
StoreRowStamped(rid, e, clock) ==
    [rid |-> rid, store |-> e.store, agg |-> e.agg, ev |-> e, at |-> clock, seq |-> e.seq]

\* EventStoreManagerMixin.store: one row per event
StoreRow(rid, e, clock) ==
    [rid |-> rid, store |-> e.store, agg |-> e.agg, ev |-> e,
     at |-> IF e.at = NoTime THEN clock ELSE e.at, seq |-> e.seq]

\* AggregateEventModel.get_event_data: the event parsed back from event_data,
\* a new object that no apply call created
GetEventData(row) == [row.ev EXCEPT !.n = 0]

\* a mutant of RowBefore: the ordering stops at the sequence number
RowBeforeWithoutId(a, b) ==
    \/ a.at < b.at
    \/ a.at = b.at /\ a.seq < b.seq

\* AggregateEventOrderingMixin.ordering: occurred_at, sequence_number NULLS FIRST, id
RowBefore(a, b) ==
    \/ a.at < b.at
    \/ a.at = b.at /\ a.seq < b.seq
    \/ a.at = b.at /\ a.seq = b.seq /\ a.rid < b.rid

RECURSIVE Ordered(_)
Ordered(S) ==
    IF S = {} THEN <<>>
    ELSE LET m == CHOOSE x \in S : \A y \in S \ {x} : RowBefore(x, y)
         IN  <<m>> \o Ordered(S \ {m})

RECURSIVE FoldRows(_, _)
FoldRows(inst, s) ==
    IF s = <<>> THEN inst ELSE FoldRows(LoadEvent(inst, GetEventData(Head(s))), Tail(s))

EventsOf(rows, type, id) == {r \in rows : r.store = type /\ r.agg = id}

\* the exception a replay of the events s onto inst ends with, "" when it returns
RECURSIVE ReplayError(_, _)
ReplayError(inst, s) ==
    IF s = <<>> THEN ""
    ELSE IF LoadError(inst, GetEventData(Head(s))) # ""
    THEN LoadError(inst, GetEventData(Head(s)))
    ELSE ReplayError(LoadEvent(inst, GetEventData(Head(s))), Tail(s))

\* --------------------------------------------------------- temporal replay
\* .filter(occurred_at__lte=occurred_at)
TimeWindow(S, t) == {r \in S : r.at <= t}

\* .filter(Q(occurred_at__lt=t) | Q(occurred_at=t, sequence_number__lte=seq)): in
\* SQL a NULL sequence_number is not <= seq
PointWindow(S, t, seq) ==
    {x \in S : x.at < t \/ (x.at = t /\ x.seq # NoSeq /\ x.seq <= seq)}

\* a mutant of LoadEditableAtTime: the events at occurred_at = t are left out
LoadEditableBeforeTime(aggs, rows, t) ==
    LET ids == {a.id : a \in aggs}
        byId == [id \in ids |->
                    LET a == CHOOSE x \in aggs : x.id = id
                    IN  IF a.adding THEN MarkForBackdating(a) ELSE Identity(a)]
        all(id) == EventsOf(rows, byId[id].type, id)
        window(id) == {r \in all(id) : r.at < t}
    IN  [id \in ids |->
            IF window(id) # {} THEN FoldRows(byId[id], Ordered(window(id)))
            ELSE IF all(id) # {}
                 THEN MarkForBackdating(
                          LoadEvent(byId[id], GetEventData(Head(Ordered(all(id))))))
                 ELSE byId[id]]

\* load_editable_aggregates_at_time, for the aggregates `aggs` of one type
LoadEditableAtTime(aggs, rows, t) ==
    LET ids == {a.id : a \in aggs}
        byId == [id \in ids |->
                    LET a == CHOOSE x \in aggs : x.id = id
                    IN  IF a.adding THEN MarkForBackdating(a) ELSE Identity(a)]
        all(id) == EventsOf(rows, byId[id].type, id)
        window(id) == TimeWindow(all(id), t)
    IN  [id \in ids |->
            IF window(id) # {} THEN FoldRows(byId[id], Ordered(window(id)))
            ELSE IF all(id) # {}
                 THEN MarkForBackdating(
                          LoadEvent(byId[id], GetEventData(Head(Ordered(all(id))))))
                 ELSE byId[id]]

\* a mutant of LoadEditableAtTimeError: load folds the events without asking
\* the context validators
LoadEditableAtTimeUnvalidated(aggs, rows, t) == ""

\* the exception load_editable_aggregates_at_time ends with when a validator
\* refuses an event of the window, "" when it returns
LoadEditableAtTimeError(aggs, rows, t) ==
    LET Start(a) == IF a.adding THEN MarkForBackdating(a) ELSE Identity(a)
        errors == {ReplayError(Start(a),
                               Ordered(TimeWindow(EventsOf(rows, a.type, a.id), t))) :
                      a \in aggs} \ {""}
    IN  IF errors = {} THEN "" ELSE CHOOSE e \in errors : TRUE

RECURSIVE MarkAll(_, _, _)
MarkAll(r, byId, s) ==
    IF s = <<>> THEN r
    ELSE MarkAll(RepoMarkEdited(r, byId[Head(s).agg], Head(s)), byId, Tail(s))

\* load_editable_aggregates_at_time_and_point: the instances and the repository
\* after the events carrying `seq` were marked as edited
LoadEditableAtTimeAndPoint(aggs, rows, t, seq, r) ==
    LET ids == {a.id : a \in aggs}
        byId == [id \in ids |->
                    LET a == CHOOSE x \in aggs : x.id = id
                    IN  IF a.adding THEN MarkForBackdating(a) ELSE Identity(a)]
        all(id) == EventsOf(rows, byId[id].type, id)
        window(id) == PointWindow(all(id), t, seq)
        folded(id) == {x \in window(id) : x.seq # seq}
        edited == UNION {{x \in window(id) : x.seq = seq} : id \in ids}
        others(id) == {x \in all(id) : x.seq # seq}
    IN  [insts |->
            [id \in ids |->
                IF folded(id) # {} THEN FoldRows(byId[id], Ordered(folded(id)))
                ELSE IF others(id) # {}
                     THEN MarkForBackdating(
                              LoadEvent(byId[id], GetEventData(Head(Ordered(others(id))))))
                     ELSE byId[id]],
         repo |-> MarkAll(r, byId, Ordered(edited))]

\* load_aggregate_states_before, for the aggregates `aggs` of one type; seq =
\* NoSeq stands for sequence_number=None.  The aggregates are fetched again by
\* id, so an input without a row is left out.  In SQL a comparison with a NULL
\* sequence_number is never true.
LoadAggregateStatesBefore(aggs, stored, rows, t, seq) ==
    LET ids == {a.id : a \in aggs} \cap DOMAIN stored
        identities == [id \in ids |-> View(Identity(FromRow(stored[id])))]
        all(id) == EventsOf(rows, identities[id].type, id)
        before(id) == {x \in all(id) :
                          \/ x.at < t
                          \/ seq # NoSeq /\ x.at = t /\ x.seq # NoSeq /\ x.seq < seq}
    IN  [id \in ids |->
            IF before(id) # {} THEN FoldRows(identities[id], Ordered(before(id)))
            ELSE IF all(id) # {}
                 THEN MarkForBackdating(
                          LoadEvent(identities[id], GetEventData(Head(Ordered(all(id))))))
                 ELSE identities[id]]

\* a mutant of ReapplyDownstream: nothing after the point is folded again
ReapplyNothing(inst, rows, t, seq) == inst

\* reapply_downstream_events_from
ReapplyDownstream(inst, rows, t, seq) ==
    LET after == {x \in EventsOf(rows, inst.type, inst.id) :
                     x.at > t \/ (x.at = t /\ x.seq # NoSeq /\ x.seq > seq)}
    IN  FoldRows(inst, Ordered(after))

\* the exception reapply_downstream_events_from ends with, "" when it returns
ReapplyDownstreamError(inst, rows, t, seq) ==
    LET after == {x \in EventsOf(rows, inst.type, inst.id) :
                     x.at > t \/ (x.at = t /\ x.seq # NoSeq /\ x.seq > seq)}
    IN  ReplayError(inst, Ordered(after))

\* --------------------------------------------------------------- use cases
\* What the body of a scope leaves behind: the repository, the instances, the
\* counters, the exception it raised ("" when it returned), the rows it fetched.
Outcome(r, h, nid, nev, e, l) ==
    [repo |-> r, heap |-> h, nextId |-> nid, nextEv |-> nev, err |-> e, loaded |-> l]

IsLot(rows, id) == Has(rows, id) /\ rows[id].type = "lot"

IsAction(rows, id) == Has(rows, id) /\ rows[id].type = "action"

\* WineLot.create
WineLotCreate(r, h, nid, nev) ==
    LET lot == ApplyInst(NewWineLot, WineLotCreated(nev, nid))
    IN  Outcome(RepoAdd(r, lot), Put(h, lot.id, lot), nid + 1, nev + 1, "", <<>>)

\* WineLot.destroy on the lot fetched by id
WineLotDestroy(r, h, nid, nev, clock, rows, lot_id) ==
    LET lot0 == FromRow(rows[lot_id])
        lot1 == ApplyInst(lot0, WineLotDeleted(nev, lot_id, clock))
    IN  IF lot0.deleted_at # NoTime
        THEN Outcome(r, h, nid, nev, "ValueError", lot_id :> lot0.version)
        ELSE Outcome(RepoAdd(r, lot1), Put(h, lot_id, lot1), nid, nev + 1, "",
                     lot_id :> lot0.version)

\* record_receive_volume; eff = NoTime stands for effective_at=None
RecordReceiveVolume(r, h, nid, nev, clock, rows, events, lot_id, volume, eff) ==
    LET is_backdated == eff # NoTime
        effective_at == Trunc(eff)
    IN  IF is_backdated /\ effective_at > clock - FutureMargin * TicksPerSecond
        THEN Outcome(r, h, nid, nev, "ValueError", <<>>)
        ELSE IF ~IsLot(rows, lot_id)
        THEN Outcome(r, h, nid, nev, "ValueError", <<>>)
        ELSE
        LET lot0 == FromRow(rows[lot_id])
            lot1 == IF is_backdated
                    THEN LoadEditableAtTime({lot0}, events,
                                            effective_at + TicksPerSecond)[lot_id]
                    ELSE lot0
            action == ApplyInst(NewAction,
                          ActionRecorded(nev, nid,
                                         IF is_backdated THEN effective_at ELSE clock,
                                         lot1.id, volume))
            r1 == RepoAdd(r, action)
            h1 == Put(h, action.id, action)
            lot2 == ApplyInst(lot1, VolumeReceived(nev + 1, lot1.id, action.id,
                                                   action.effective_at, volume))
            r2 == RepoAdd(r1, lot2)
            lot3 == IF is_backdated
                    THEN ReapplyDownstream(lot2, events, action.effective_at, action.id)
                    ELSE lot2
            l == lot_id :> lot0.version
        IN  IF is_backdated
               /\ LoadEditableAtTimeError({lot0}, events,
                                          effective_at + TicksPerSecond) # ""
            THEN Outcome(r, h, nid, nev, "ValueError", l)
            ELSE IF lot1.deleted_at # NoTime
            THEN Outcome(r1, h1, nid + 1, nev + 1, "ValueError", l)
            ELSE IF is_backdated
                    /\ ReapplyDownstreamError(lot2, events, action.effective_at,
                                              action.id) # ""
            THEN Outcome(r2, Put(h1, lot_id, lot2), nid + 1, nev + 2, "ValueError", l)
            ELSE Outcome(r2, Put(h1, lot_id, lot3), nid + 1, nev + 2, "", l)

\* edit_receive_volume
EditReceiveVolume(r, h, nid, nev, clock, rows, events, action_id, lot_id, volume) ==
    IF ~IsAction(rows, action_id) THEN Outcome(r, h, nid, nev, "ValueError", <<>>)
    ELSE IF rows[action_id].action_type # "RECEIVE_VOLUME"
    THEN Outcome(r, h, nid, nev, "ValueError", action_id :> rows[action_id].version)
    ELSE IF ~IsLot(rows, lot_id)
    THEN Outcome(r, h, nid, nev, "ValueError", action_id :> rows[action_id].version)
    ELSE
    LET action0 == FromRow(rows[action_id])
        lot == FromRow(rows[lot_id])
        lots == IF lot.id # action0.lot THEN {lot, FromRow(rows[action0.lot])} ELSE {lot}
        le == LoadEditableAtTimeAndPoint(lots, events, action0.effective_at,
                                         action0.id, r)
        ids == DOMAIN le.insts
        h0 == [id \in DOMAIN h \cup (ids \cap Range(le.repo.keys)) |->
                  IF id \in ids THEN le.insts[id] ELSE h[id]]
        action == ApplyInst(action0, ActionEdited(nev, action_id, clock, lot_id, volume))
        r1 == RepoAdd(le.repo, action)
        h1 == Put(h0, action_id, action)
        lot2 == ApplyInst(le.insts[lot_id],
                          VolumeReceived(nev + 1, lot_id, action.id,
                                         action.effective_at, volume))
        r2 == RepoAdd(r1, lot2)
        insts2 == [le.insts EXCEPT ![lot_id] = lot2]
        h2 == [id \in DOMAIN h1 \cup ids |->
                  IF id \in ids
                  THEN ReapplyDownstream(insts2[id], events, action.effective_at,
                                         action.id)
                  ELSE h1[id]]
        l == [id \in ids \cup {action_id} |-> rows[id].version]
    IN  IF action0.deleted_at # NoTime
        THEN Outcome(le.repo, h0, nid, nev, "ValueError", l)
        ELSE IF le.insts[lot_id].deleted_at # NoTime
        THEN Outcome(r1, h1, nid, nev + 1, "ValueError", l)
        ELSE Outcome(r2, h2, nid, nev + 2, "", l)

\* ------------------------------------------------------------ transactions
NoTx == [rows |-> <<>>, locked |-> {}, appended |-> <<>>, deleted |-> {}]

\* ---------------------------------------------------------------- the scope
\* what the subscribers have handled, less the handling of p's earlier operations
Since(log, p) ==
    LET Other(d) == d.proc # p
    IN  SelectSeq(log, Other)

\* store_aggregate_changes / aggregate_store: AggregateRepository() returns the
\* process's singleton as it is, and atomic() opens the transaction
Enter(p) ==
    /\ pc[p] = "idle"
    /\ ops[p] < MaxOps
    /\ pc' = [pc EXCEPT ![p] = "body"]
    /\ ops' = [ops EXCEPT ![p] = @ + 1]
    /\ tx' = [tx EXCEPT ![p] = NoTx]
    /\ err' = [err EXCEPT ![p] = ""]
    /\ result' = [result EXCEPT ![p] = "none"]
    /\ call' = [call EXCEPT ![p] = [name |-> "none"]]
    /\ snap' = [snap EXCEPT ![p] = [rows |-> dbRows, events |-> dbEvents]]
    /\ loaded' = [loaded EXCEPT ![p] = <<>>]
    /\ raced' = [raced EXCEPT ![p] = {}]
    /\ trace' = [trace EXCEPT ![p] = <<>>]
    /\ delivered' = Since(delivered, p)
    /\ UNCHANGED <<now, nextId, nextRid, nextEv, dbRows, dbEvents, idx, repo, heap>>

\* a factory called with no scope open: apply() still registers with the singleton
ApplyOutside(p) ==
    /\ pc[p] = "idle"
    /\ ops[p] < MaxOps
    /\ LET out == WineLotCreate(repo[p], heap[p], nextId, nextEv)
       IN  /\ repo' = [repo EXCEPT ![p] = out.repo]
           /\ heap' = [heap EXCEPT ![p] = out.heap]
           /\ nextId' = out.nextId
           /\ nextEv' = out.nextEv
    /\ ops' = [ops EXCEPT ![p] = @ + 1]
    /\ result' = [result EXCEPT ![p] = "none"]
    /\ call' = [call EXCEPT ![p] = [name |-> "create_outside"]]
    /\ delivered' = Since(delivered, p)
    /\ UNCHANGED <<now, nextRid, dbRows, dbEvents, pc, idx, tx, err, snap, loaded,
                   raced, trace>>

\* the body f(*args) ran to its return or to the exception it raised
BodyDone(p, out, c) ==
    /\ repo' = [repo EXCEPT ![p] = out.repo]
    /\ heap' = [heap EXCEPT ![p] = out.heap]
    /\ nextId' = out.nextId
    /\ nextEv' = out.nextEv
    /\ err' = [err EXCEPT ![p] = out.err]
    /\ pc' = [pc EXCEPT ![p] = IF out.err = "" THEN "persist" ELSE "raised"]
    /\ idx' = [idx EXCEPT ![p] = 1]
    /\ call' = [call EXCEPT ![p] = c]
    /\ loaded' = [loaded EXCEPT ![p] = out.loaded]
    /\ raced' = [raced EXCEPT ![p] =
                    {id \in DOMAIN out.loaded :
                        \E q \in Procs \ {p} :
                            /\ pc[q] # "idle"
                            /\ Has(loaded[q], id)
                            /\ loaded[q][id] = out.loaded[id]}]
    /\ UNCHANGED <<now, nextRid, dbRows, dbEvents, tx, result, ops, snap, delivered,
                   trace>>

BodyCreateLot(p) ==
    /\ pc[p] = "body"
    /\ BodyDone(p, WineLotCreate(repo[p], heap[p], nextId, nextEv), [name |-> "create"])

BodyDestroyLot(p) ==
    /\ pc[p] = "body"
    /\ \E lot_id \in DOMAIN dbRows :
          /\ dbRows[lot_id].type = "lot"
          /\ BodyDone(p, WineLotDestroy(repo[p], heap[p], nextId, nextEv, now, dbRows,
                                        lot_id),
                      [name |-> "destroy", lot |-> lot_id])

BodyRecordReceiveVolume(p) ==
    /\ pc[p] = "body"
    /\ \E lot_id \in 1..nextId, volume \in Volumes, eff \in {NoTime} \cup (0..now) :
          BodyDone(p, RecordReceiveVolume(repo[p], heap[p], nextId, nextEv, now, dbRows,
                                          dbEvents, lot_id, volume, eff),
                   [name |-> "record_receive_volume", lot |-> lot_id, volume |-> volume,
                    eff |-> eff])

BodyEditReceiveVolume(p) ==
    /\ pc[p] = "body"
    /\ \E action_id \in 1..nextId, lot_id \in 1..nextId, volume \in Volumes :
          BodyDone(p, EditReceiveVolume(repo[p], heap[p], nextId, nextEv, now, dbRows,
                                        dbEvents, action_id, lot_id, volume),
                   [name |-> "edit_receive_volume", action |-> action_id,
                    lot |-> lot_id, volume |-> volume])

\* a mutant of Unwind: the except clause forgets clear()
UnwindKeepsBuffers(p) ==
    /\ pc[p] = "raised"
    /\ heap' = [heap EXCEPT ![p] = <<>>]
    /\ tx' = [tx EXCEPT ![p] = NoTx]
    /\ result' = [result EXCEPT ![p] = err[p]]
    /\ pc' = [pc EXCEPT ![p] = "idle"]
    /\ UNCHANGED <<now, nextId, nextRid, nextEv, dbRows, dbEvents, idx, repo, err, ops,
                   call, snap, loaded, raced, delivered, trace>>

\* the exception leaves the scope: except-clause clear(), then atomic() rolls back
Unwind(p) ==
    /\ pc[p] = "raised"
    /\ repo' = [repo EXCEPT ![p] = EmptyRepo]
    /\ heap' = [heap EXCEPT ![p] = <<>>]
    /\ tx' = [tx EXCEPT ![p] = NoTx]
    /\ result' = [result EXCEPT ![p] = err[p]]
    /\ pc' = [pc EXCEPT ![p] = "idle"]
    /\ UNCHANGED <<now, nextId, nextRid, nextEv, dbRows, dbEvents, idx, err, ops, call,
                   snap, loaded, raced, delivered, trace>>

\* -------------------------------------------- AggregateRepository.persist
Raise(p, e) ==
    /\ pc' = [pc EXCEPT ![p] = "raised"]
    /\ err' = [err EXCEPT ![p] = e]

\* the row a statement of p's transaction sees: its own write, else the committed row
Visible(p, id) ==
    IF Has(tx[p].rows, id) THEN tx[p].rows[id]
    ELSE IF Has(dbRows, id) THEN dbRows[id]
    ELSE [type |-> "none", id |-> id, version |-> -1]

\* a mutant of AfterPersist: persist() goes on to the deletions before the appends
AfterPersistSkipsAppend(r) == "delete"

\* the loop persist() runs after the last aggregate was persisted
AfterPersist(r) == IF Len(r.stores) > 0 THEN "store" ELSE "delete"

\* AggregateModel.persist on the next registered aggregate
PersistAggregate(p) ==
    /\ pc[p] = "persist"
    /\ LET id == repo[p].keys[idx[p]]
           inst == heap[p][id]
           last == idx[p] = Len(repo[p].keys)
           inserted == [inst EXCEPT !.version = 1, !.adding = FALSE]
           bumped == [inst EXCEPT !.version = @ + 1]
           row == Visible(p, id)
       IN  /\ \A q \in Procs \ {p} : id \notin tx[q].locked
           /\ IF inst.adding
              THEN /\ heap' = [heap EXCEPT ![p][id] = inserted]
                   /\ tx' = [tx EXCEPT ![p].rows = Put(@, id, InsertRow(inserted))]
                   /\ trace' = [trace EXCEPT ![p] = Append(@, "persist")]
                   /\ pc' = [pc EXCEPT ![p] = IF last THEN AfterPersist(repo[p]) ELSE @]
                   /\ idx' = [idx EXCEPT ![p] = IF last THEN 1 ELSE @ + 1]
                   /\ UNCHANGED err
              ELSE /\ heap' = [heap EXCEPT ![p][id] = bumped]
                   /\ IF row.type # "none" /\ row.version = inst.version
                      THEN /\ tx' = [tx EXCEPT ![p].rows = Put(@, id, UpdateRow(row, bumped)),
                                               ![p].locked = @ \cup {id}]
                           /\ trace' = [trace EXCEPT ![p] = Append(@, "persist")]
                           /\ pc' = [pc EXCEPT ![p] =
                                        IF last THEN AfterPersist(repo[p]) ELSE @]
                           /\ idx' = [idx EXCEPT ![p] = IF last THEN 1 ELSE @ + 1]
                           /\ UNCHANGED err
                      ELSE /\ Raise(p, "OutOfDateVersion")
                           /\ UNCHANGED <<tx, trace, idx>>
    /\ UNCHANGED <<now, nextId, nextRid, nextEv, dbRows, dbEvents, repo, result, ops,
                   call, snap, loaded, raced, delivered>>

\* event_model.objects.store(events) for the next store
StoreEvents(p) ==
    /\ pc[p] = "store"
    /\ LET evs == repo[p].stores[idx[p]].v
           rows == [i \in 1..Len(evs) |-> StoreRow(nextRid + i - 1, evs[i], now)]
           last == idx[p] = Len(repo[p].stores)
       IN  /\ tx' = [tx EXCEPT ![p].appended = @ \o rows]
           /\ nextRid' = nextRid + Len(evs)
           /\ pc' = [pc EXCEPT ![p] = IF last THEN "delete" ELSE @]
           /\ idx' = [idx EXCEPT ![p] = IF last THEN 1 ELSE @ + 1]
    /\ trace' = [trace EXCEPT ![p] = Append(@, "append")]
    /\ UNCHANGED <<now, nextId, nextEv, dbRows, dbEvents, repo, heap, err, result, ops,
                   call, snap, loaded, raced, delivered>>

\* the database refuses the insert
StoreFail(p) ==
    /\ pc[p] = "store"
    /\ Raise(p, "DatabaseError")
    /\ UNCHANGED <<now, nextId, nextRid, nextEv, dbRows, dbEvents, idx, repo, heap, tx,
                   result, ops, call, snap, loaded, raced, delivered, trace>>

Retracted(r) == UNION {{x.rid : x \in Range(r.deleted[i].v)} : i \in 1..Len(r.deleted)}

\* a mutant of SubscribersOf: the subscribers of the kind, last registered first
SubscribersNewestFirst(e) == [i \in 1..Len(Subscribers) |-> Subscribers[Len(Subscribers) + 1 - i]]

\* self._event_subscriber_classes.get(event_fqdn, [])
SubscribersOf(e) == Subscribers

Deliveries(r) ==
    LET n == Len(r.events) IN
    IF n = 0 THEN 0 ELSE n * Len(SubscribersOf(r.events[1]))

\* event_model.objects.filter(id__in=ids).delete() for every store with retracted rows
DeleteEvents(p) ==
    /\ pc[p] = "delete"
    /\ tx' = [tx EXCEPT ![p].deleted = @ \cup Retracted(repo[p])]
    /\ trace' = [trace EXCEPT ![p] =
                    IF Retracted(repo[p]) # {} THEN Append(@, "delete") ELSE @]
    /\ pc' = [pc EXCEPT ![p] = IF Deliveries(repo[p]) > 0 THEN "dispatch" ELSE "clear"]
    /\ idx' = [idx EXCEPT ![p] = 1]
    /\ UNCHANGED <<now, nextId, nextRid, nextEv, dbRows, dbEvents, repo, heap, err,
                   result, ops, call, snap, loaded, raced, delivered>>

\* the database refuses the delete
DeleteFail(p) ==
    /\ pc[p] = "delete"
    /\ Retracted(repo[p]) # {}
    /\ Raise(p, "DatabaseError")
    /\ UNCHANGED <<now, nextId, nextRid, nextEv, dbRows, dbEvents, idx, repo, heap, tx,
                   result, ops, call, snap, loaded, raced, delivered, trace>>

\* dispatch_all: the next handle(event) call, events in list order and, for each
\* event, its subscribers in registration order; _do_dispatch instantiates the
\* subscriber class, so the event is the first one the instance handles
DispatchOne(p) ==
    /\ pc[p] = "dispatch"
    /\ LET k == idx[p]
           nsub == Len(Subscribers)
           e == repo[p].events[((k - 1) \div nsub) + 1]
           sub == SubscribersOf(e)[((k - 1) % nsub) + 1]
           last == k = Deliveries(repo[p])
       IN  /\ delivered' = Append(delivered,
                                  [proc |-> p, op |-> ops[p], n |-> e.n, sub |-> sub,
                                   handled |-> 1])
           /\ pc' = [pc EXCEPT ![p] = IF last THEN "clear" ELSE @]
           /\ idx' = [idx EXCEPT ![p] = IF last THEN 1 ELSE @ + 1]
    /\ trace' = [trace EXCEPT ![p] = Append(@, "dispatch")]
    /\ UNCHANGED <<now, nextId, nextRid, nextEv, dbRows, dbEvents, repo, heap, tx, err,
                   result, ops, call, snap, loaded, raced>>

\* the subscriber's handle(event) raises
DispatchFail(p) ==
    /\ pc[p] = "dispatch"
    /\ Raise(p, "SubscriberError")
    /\ UNCHANGED <<now, nextId, nextRid, nextEv, dbRows, dbEvents, idx, repo, heap, tx,
                   result, ops, call, snap, loaded, raced, delivered, trace>>

\* self.clear() at the end of persist()
Clear(p) ==
    /\ pc[p] = "clear"
    /\ repo' = [repo EXCEPT ![p] = EmptyRepo]
    /\ trace' = [trace EXCEPT ![p] = Append(@, "clear")]
    /\ pc' = [pc EXCEPT ![p] = "commit"]
    /\ UNCHANGED <<now, nextId, nextRid, nextEv, dbRows, dbEvents, idx, heap, tx, err,
                   result, ops, call, snap, loaded, raced, delivered>>

\* atomic() exits without an exception: the transaction commits
Commit(p) ==
    /\ pc[p] = "commit"
    /\ dbRows' = [id \in DOMAIN dbRows \cup DOMAIN tx[p].rows |->
                     IF Has(tx[p].rows, id) THEN tx[p].rows[id] ELSE dbRows[id]]
    /\ dbEvents' = {x \in dbEvents : x.rid \notin tx[p].deleted} \cup Range(tx[p].appended)
    /\ tx' = [tx EXCEPT ![p] = NoTx]
    /\ heap' = [heap EXCEPT ![p] = <<>>]
    /\ result' = [result EXCEPT ![p] = "committed"]
    /\ pc' = [pc EXCEPT ![p] = "idle"]
    /\ UNCHANGED <<now, nextId, nextRid, nextEv, idx, repo, err, ops, call, snap, loaded,
                   raced, delivered, trace>>

\* time passes
Tick ==
    /\ now < MaxTime
    /\ now' = now + 1
    /\ UNCHANGED <<nextId, nextRid, nextEv, dbRows, dbEvents, pc, idx, repo, heap, tx,
                   err, result, ops, call, snap, loaded, raced, delivered, trace>>

\* ----------------------------------------------------------- specifications
Step(p) ==
    \/ Enter(p)
    \/ ApplyOutside(p)
    \/ BodyCreateLot(p)
    \/ BodyDestroyLot(p)
    \/ BodyRecordReceiveVolume(p)
    \/ BodyEditReceiveVolume(p)
    \/ Unwind(p)
    \/ PersistAggregate(p)
    \/ StoreEvents(p)
    \/ StoreFail(p)
    \/ DeleteEvents(p)
    \/ DeleteFail(p)
    \/ DispatchOne(p)
    \/ DispatchFail(p)
    \/ Clear(p)
    \/ Commit(p)

InitProcs(budget) ==
    /\ pc = [p \in Procs |-> "idle"]
    /\ idx = [p \in Procs |-> 1]
    /\ repo = [p \in Procs |-> EmptyRepo]
    /\ heap = [p \in Procs |-> <<>>]
    /\ tx = [p \in Procs |-> NoTx]
    /\ err = [p \in Procs |-> ""]
    /\ result = [p \in Procs |-> "none"]
    /\ ops = budget
    /\ call = [p \in Procs |-> [name |-> "none"]]
    /\ loaded = [p \in Procs |-> <<>>]
    /\ raced = [p \in Procs |-> {}]
    /\ trace = [p \in Procs |-> <<>>]
    /\ delivered = <<>>

\* one process, an empty database
Init ==
    /\ now = 1
    /\ nextId = 1
    /\ nextRid = 1
    /\ nextEv = 1
    /\ dbRows = <<>>
    /\ dbEvents = {}
    /\ snap = [p \in Procs |-> [rows |-> <<>>, events |-> {}]]
    /\ InitProcs([p \in Procs |-> IF p = 1 THEN 0 ELSE MaxOps])

Next == Tick \/ \E p \in Procs : Step(p)

Spec == Init /\ [][Next]_vars

\* two processes, one operation each, on a database in which lot 1 holds the
\* volume that action 2 recorded (the state Spec reaches after a create and a
\* record_receive_volume, see SeedReachable)
SeedRows ==
    (1 :> [type |-> "lot", id |-> 1, version |-> 1, volume |-> 1, deleted_at |-> NoTime])
    @@ (2 :> [type |-> "action", id |-> 2, version |-> 1, effective_at |-> 1,
              action_type |-> "RECEIVE_VOLUME", lot |-> 1, vol |-> 1, volumes |-> <<>>,
              revision_number |-> 0, deleted_at |-> NoTime, updated_at |-> NoTime])

SeedEvents ==
    { StoreRow(1, WineLotCreated(1, 1), 1),
      StoreRow(2, ActionRecorded(2, 2, 1, 1, 1), 1),
      StoreRow(3, VolumeReceived(3, 1, 2, 1, 1), 1) }

InitConc ==
    /\ now = MaxTime - 1
    /\ nextId = 3
    /\ nextRid = 4
    /\ nextEv = 4
    /\ dbRows = SeedRows
    /\ dbEvents = SeedEvents
    /\ snap = [p \in Procs |-> [rows |-> SeedRows, events |-> SeedEvents]]
    /\ InitProcs([p \in Procs |-> MaxOps - 1])

SpecConc == InitConc /\ [][Next]_vars

\* ------------------------------------------------------------------ claims
Fields(x) ==
    IF x.type = "lot" THEN <<x.volume, x.deleted_at>>
    ELSE <<x.effective_at, x.action_type, x.lot, x.vol, x.volumes, x.revision_number,
           x.deleted_at, x.updated_at>>

\* the aggregate's stored events folded in canonical order onto identity()
FullFold(id) ==
    FoldRows(Identity(FromRow(dbRows[id])),
             Ordered(EventsOf(dbEvents, dbRows[id].type, id)))

DeliveredBy(p) == {i \in 1..Len(delivered) :
                      delivered[i].proc = p /\ delivered[i].op = ops[p]}

Ended(p) == pc[p] = "idle" /\ result[p] # "none"

\* The seed database of SpecConc is a committed state of Spec.
SeedReachable == ~(dbRows = SeedRows /\ dbEvents = SeedEvents /\ now = MaxTime - 1)

\* C1: when two units of work fetched the same aggregate at the same version
\* while both were open, both mutated it and both ended (by commit or by
\* OutOfDateVersion), exactly one committed and the other ended with
\* OutOfDateVersion.
C1_ExactlyOneCommits ==
    \A p \in Procs : \A q \in Procs \ {p} :
        (/\ raced[p] # {}
         /\ Ended(p) /\ Ended(q)
         /\ {result[p], result[q]} \subseteq {"committed", "OutOfDateVersion"})
        => {result[p], result[q]} = {"committed", "OutOfDateVersion"}

\* C2: once persist() succeeded on an aggregate inside a transaction, the row the
\* transaction wrote carries the version the in-memory instance now has (1 after
\* the insert, one more after every update).
C2_RowVersionFollowsInstance ==
    \A p \in Procs : \A id \in DOMAIN tx[p].rows :
        Has(heap[p], id) => tx[p].rows[id].version = heap[p][id].version

\* C3: in every state, for every aggregate, folding its stored events in canonical
\* order onto identity() yields the domain fields of its persisted row.
C3_ReplayEquivalence ==
    \A id \in DOMAIN dbRows : Fields(FullFold(id)) = Fields(FromRow(dbRows[id]))

\* C4: after a backdated record_receive_volume committed, the lot's persisted
\* volume is the volume of the fold of its complete event history.
C4_BackdatedRecordIsFullFold ==
    \A p \in Procs :
        (/\ pc[p] = "idle" /\ result[p] = "committed"
         /\ call[p].name = "record_receive_volume"
         /\ call[p].eff # NoTime)
        => dbRows[call[p].lot].volume = FullFold(call[p].lot).volume

\* C5: a unit of work whose persist() failed at any step leaves the aggregate rows
\* and the event store as they were and has delivered no notification.
C5_FailedPersistLeavesNothing ==
    \A p \in Procs :
        (pc[p] = "idle"
         /\ result[p] \in {"OutOfDateVersion", "DatabaseError", "SubscriberError"})
        => /\ dbRows = snap[p].rows
           /\ dbEvents = snap[p].events
           /\ DeliveredBy(p) = {}

\* C6: every notification a subscriber has handled belongs to a unit of work whose
\* transaction has committed.
C6_DispatchAfterCommit ==
    \A i \in 1..Len(delivered) :
        LET d == delivered[i]
        IN  ops[d.proc] = d.op => pc[d.proc] = "idle" /\ result[d.proc] = "committed"

\* C7: when the body of a scope raises, persist() is not called (no step of it
\* runs, nothing is written in the transaction, nothing is dispatched), and once
\* the exception has left the scope the repository is empty, the database is as
\* it was at entry and the caller holds the exception.
C7_BodyExceptionLeavesNothing ==
    \A p \in Procs :
        /\ (pc[p] = "raised" /\ err[p] = "ValueError")
           => trace[p] = <<>> /\ tx[p] = NoTx /\ DeliveredBy(p) = {}
        /\ (pc[p] = "idle" /\ result[p] = "ValueError")
           => /\ repo[p] = EmptyRepo
              /\ trace[p] = <<>>
              /\ DeliveredBy(p) = {}
              /\ dbRows = snap[p].rows
              /\ dbEvents = snap[p].events
        /\ (pc[p] = "idle" /\ result[p] # "none" /\ err[p] = "ValueError")
           => result[p] = "ValueError"

\* C7 witness: record_receive_volume on a deleted lot raised after the action was
\* recorded and buffered, and the exception has left the scope.
C7_Witness ==
    \E p \in Procs :
        /\ pc[p] = "idle" /\ result[p] = "ValueError"
        /\ call[p].name = "record_receive_volume"
        /\ IsLot(dbRows, call[p].lot)
        /\ dbRows[call[p].lot].deleted_at # NoTime
        /\ nextEv > 1 + Cardinality(dbEvents)

\* C8: the repository's buffers are empty whenever a scope is entered and whenever
\* one is left.
C8_BuffersEmptyAtBoundaries ==
    [][\A p \in Procs :
          /\ (pc[p] = "idle" /\ pc'[p] = "body") => repo[p] = EmptyRepo
          /\ (pc[p] # "idle" /\ pc'[p] = "idle") => repo'[p] = EmptyRepo]_vars

\* C9: the notifications of one unit of work reach the subscribers in the order
\* in which their events were applied.
C9_DispatchInApplyOrder ==
    \A i \in 1..Len(delivered) : \A j \in i..Len(delivered) :
        (delivered[i].proc = delivered[j].proc /\ delivered[i].op = delivered[j].op)
        => delivered[i].n <= delivered[j].n

\* C9 witness: a committed unit of work delivered the notifications of two events
\* applied to two aggregates of different stores.
C9_Witness ==
    \E p \in Procs :
        /\ pc[p] = "idle" /\ result[p] = "committed"
        /\ \E i \in DeliveredBy(p) : \E j \in DeliveredBy(p) :
              /\ i < j
              /\ delivered[i].n < delivered[j].n
              /\ \E x \in dbEvents : \E y \in dbEvents :
                    /\ x.ev.n = delivered[i].n /\ y.ev.n = delivered[j].n
                    /\ x.store # y.store

Rank(step) ==
    CASE step = "persist" -> 1
      [] step = "append" -> 2
      [] step = "delete" -> 3
      [] step = "dispatch" -> 4
      [] step = "clear" -> 5

Buffered(r) == UNION {{e.n : e \in Range(r.stores[i].v)} : i \in 1..Len(r.stores)}

\* C10: persist() persists every registered aggregate, then appends all buffered
\* events, then deletes the retracted rows, then dispatches, then clears.
C10_PersistStepOrder ==
    \A p \in Procs :
        /\ \A i \in 1..Len(trace[p]) : \A j \in i..Len(trace[p]) :
              Rank(trace[p][i]) <= Rank(trace[p][j])
        /\ pc[p] \in {"persist", "store", "delete", "dispatch", "clear"}
           => repo[p] # EmptyRepo
        /\ pc[p] = "persist" => tx[p].appended = <<>>
        /\ pc[p] \in {"store", "delete", "dispatch", "clear"}
           => \A id \in Range(repo[p].keys) : Has(tx[p].rows, id)
        /\ pc[p] \in {"persist", "store"} => tx[p].deleted = {}
        /\ pc[p] \in {"delete", "dispatch", "clear"}
           => Buffered(repo[p]) = {x.ev.n : x \in Range(tx[p].appended)}
        /\ pc[p] \in {"persist", "store", "delete"} => DeliveredBy(p) = {}
        /\ pc[p] \in {"dispatch", "clear"} => tx[p].deleted = Retracted(repo[p])
        /\ pc[p] = "clear" => Cardinality(DeliveredBy(p)) = Deliveries(repo[p])
        /\ pc[p] = "commit" => repo[p] = EmptyRepo /\ trace[p][Len(trace[p])] = "clear"

\* C10 witness: an edit's persist() has run all five kinds of step.
C10_Witness ==
    \E p \in Procs :
        /\ pc[p] = "commit"
        /\ {"persist", "append", "delete", "dispatch", "clear"} \subseteq Range(trace[p])

\* ------------------------------------------------- edits of a recorded action
\* one process, two operations, on a database with two lots in which lot 1
\* holds the volume that action 3 recorded (the state Spec reaches after two
\* creates and a record_receive_volume, see SeedEditReachable)
SeedEditRows ==
    (1 :> [type |-> "lot", id |-> 1, version |-> 1, volume |-> 1, deleted_at |-> NoTime])
    @@ (2 :> [type |-> "lot", id |-> 2, version |-> 1, volume |-> 0,
              deleted_at |-> NoTime])
    @@ (3 :> [type |-> "action", id |-> 3, version |-> 1, effective_at |-> 1,
              action_type |-> "RECEIVE_VOLUME", lot |-> 1, vol |-> 1, volumes |-> <<>>,
              revision_number |-> 0, deleted_at |-> NoTime, updated_at |-> NoTime])

SeedEditEvents ==
    { StoreRow(1, WineLotCreated(1, 1), 1),
      StoreRow(2, WineLotCreated(2, 2), 1),
      StoreRow(3, ActionRecorded(3, 3, 1, 1, 1), 1),
      StoreRow(4, VolumeReceived(4, 1, 3, 1, 1), 1) }

InitEdit ==
    /\ now = 1
    /\ nextId = 4
    /\ nextRid = 5
    /\ nextEv = 5
    /\ dbRows = SeedEditRows
    /\ dbEvents = SeedEditEvents
    /\ snap = [p \in Procs |-> [rows |-> SeedEditRows, events |-> SeedEditEvents]]
    /\ InitProcs([p \in Procs |-> IF p = 1 THEN MaxOps - 2 ELSE MaxOps])

SpecEdit == InitEdit /\ [][Next]_vars

\* The seed database of SpecEdit is a committed state of Spec.
SeedEditReachable == ~(dbRows = SeedEditRows /\ dbEvents = SeedEditEvents /\ now = 1)

\* p's last unit of work was an edit_receive_volume that committed
EditCommitted(p) ==
    /\ pc[p] = "idle"
    /\ result[p] = "committed"
    /\ call[p].name = "edit_receive_volume"

\* the fold of a set of lot rows onto the blank lot `id`
VolumeOfFold(id, S) == FoldRows(Identity([NewWineLot EXCEPT !.id = id]), Ordered(S)).volume

\* C11: after an edit that retargets action X from lot A to another lot B with a
\* new volume committed, A's persisted volume is the fold of A's history without
\* X's event, B's persisted volume is the fold of B's history with the
\* replacement event at (X.effective_at, X.id), and X keeps its id and
\* effective_at while its revision_number went up by exactly one.
C11_RetargetRecomputesBothLots ==
    \A p \in Procs :
        (EditCommitted(p) /\ snap[p].rows[call[p].action].lot # call[p].lot)
        => LET X == call[p].action
               before == snap[p].rows[X]
               A == before.lot
               B == call[p].lot
               histA == {e \in EventsOf(snap[p].events, "lot", A) : e.seq # X}
               histB == {e \in EventsOf(snap[p].events, "lot", B) : e.seq # X}
               repl == StoreRow(nextRid, VolumeReceived(0, B, X, before.effective_at,
                                                       call[p].volume), now)
           IN  /\ dbRows[A].volume = VolumeOfFold(A, histA)
               /\ dbRows[B].volume = VolumeOfFold(B, histB \cup {repl})
               /\ dbRows[X].id = X
               /\ dbRows[X].effective_at = before.effective_at
               /\ dbRows[X].revision_number = before.revision_number + 1

\* C11 witness: a retargeting edit committed on lots that both have a later
\* event or an earlier volume, and moved the volume from A to B.
C11_Witness ==
    \E p \in Procs :
        /\ EditCommitted(p)
        /\ snap[p].rows[call[p].action].lot # call[p].lot
        /\ dbRows[snap[p].rows[call[p].action].lot].volume
              < snap[p].rows[snap[p].rows[call[p].action].lot].volume
        /\ \E e \in dbEvents : e.store = "lot" /\ e.seq \notin {NoSeq, call[p].action}

\* C12: after an edit of action X committed, every event row that carried
\* sequence_number X before the edit is gone, the rows that carry X now are the
\* ones this unit of work appended, at the occurred_at of the retracted ones,
\* and every aggregate that had a retracted event has its row version raised.
C12_EditRetractsAndBumps ==
    \A p \in Procs :
        EditCommitted(p)
        => LET X == call[p].action
               old == {e \in snap[p].events : e.seq = X}
           IN  /\ old \cap dbEvents = {}
               /\ \A e \in dbEvents :
                     e.seq = X => /\ e \notin snap[p].events
                                  /\ \A o \in old : o.at = e.at
               /\ \A o \in old : dbRows[o.agg].version = snap[p].rows[o.agg].version + 1

\* ---------------------------------------------------------- composition
\* fractions <<numerator, denominator>> in lowest terms
RECURSIVE GCD(_, _)
GCD(m, n) == IF n = 0 THEN m ELSE GCD(n, m % n)

Abs(n) == IF n < 0 THEN -n ELSE n

\* the quotient n / d in lowest terms, with a positive denominator
Frac(n, d) ==
    LET g == GCD(Abs(n), Abs(d))
        sign == IF d < 0 THEN -1 ELSE 1
    IN  <<(sign * n) \div g, (sign * d) \div g>>

Zero == <<0, 1>>

One == <<1, 1>>

FAdd(f, g) == Frac(f[1] * g[2] + g[1] * f[2], f[2] * g[2])

FMul(f, g) == Frac(f[1] * g[1], f[2] * g[2])

\* sum(f[k] for k in S)
RECURSIVE Sum(_, _)
Sum(f, S) ==
    IF S = {} THEN Zero
    ELSE LET k == CHOOSE x \in S : TRUE IN FAdd(f[k], Sum(f, S \ {k}))

\* sum of the integer values f[k], k in S
RECURSIVE Total(_, _)
Total(f, S) ==
    IF S = {} THEN 0
    ELSE LET k == CHOOSE x \in S : TRUE IN f[k] + Total(f, S \ {k})

\* Composition.validate_percentages: 0.9999 < total < 1.0001, or else pydantic
\* raises its ValidationError
ValidComposition(components) ==
    LET total == Sum(components, DOMAIN components)
    IN  9999 * total[2] < 10000 * total[1] /\ 10000 * total[1] < 10001 * total[2]

\* WineLotCreated.composition: in this model a lot is created of one component
\* of its own, named by the lot's id
CreatedComposition(e) == e.agg :> One

\* the cutoff of the projection, on the events S: effective_at = NoTime and
\* action_id = NoId stand for None
Cutoff(S, effective_at, action_id) ==
    IF effective_at = NoTime THEN S
    ELSE IF action_id # NoId
    THEN {x \in S : \/ x.at < effective_at
                    \/ x.at = effective_at /\ x.seq # NoSeq /\ x.seq <= action_id}
    ELSE {x \in S : x.at <= effective_at}

\* the cutoff of the source discovery, on the blend events S
BlendCutoff(S, effective_at, action_id) ==
    IF effective_at = NoTime THEN S
    ELSE IF action_id # NoId
    THEN {x \in S : \/ x.at < effective_at
                    \/ x.at = effective_at /\ x.seq # NoSeq /\ x.seq <= action_id}
    ELSE {x \in S : x.at <= effective_at}

\* the keys of a dict of lots, in the order the dict lists them
RECURSIVE Listed(_)
Listed(S) ==
    IF S = {} THEN <<>>
    ELSE LET k == CHOOSE x \in S : \A y \in S : x <= y IN <<k>> \o Listed(S \ {k})

\* the while loop of _get_all_lot_ids: queue.pop(0), then every source of the
\* lot's blend events within the cutoff that is not yet discovered is added
\* and queued; st holds discovered, queue and the lots popped so far
RECURSIVE Discover(_, _, _, _)
Discover(rows, st, effective_at, action_id) ==
    IF st.queue = <<>> THEN st
    ELSE LET current == Head(st.queue)
             blend_events ==
                 BlendCutoff({x \in rows : /\ x.store = "lot" /\ x.agg = current
                                           /\ x.ev.kind = "VolumeBlended"},
                             effective_at, action_id)
             sources == UNION {DOMAIN GetEventData(x).volumes : x \in blend_events}
             unseen == sources \ st.discovered
         IN  Discover(rows,
                      [discovered |-> st.discovered \cup unseen,
                       queue |-> Tail(st.queue) \o Listed(unseen),
                       popped |-> Append(st.popped, current)],
                      effective_at, action_id)

\* a mutant of GetAllLotIds: the sources of the target lot alone
GetDirectLotIds(rows, lot_id, effective_at, action_id) ==
    LET blend_events ==
            BlendCutoff({x \in rows : /\ x.store = "lot" /\ x.agg = lot_id
                                      /\ x.ev.kind = "VolumeBlended"},
                        effective_at, action_id)
        sources == UNION {DOMAIN GetEventData(x).volumes : x \in blend_events}
    IN  [discovered |-> {lot_id} \cup sources, queue |-> <<>>,
         popped |-> <<lot_id>> \o Listed(sources \ {lot_id})]

\* _get_all_lot_ids: the breadth-first search from the target lot
GetAllLotIds(rows, lot_id, effective_at, action_id) ==
    Discover(rows, [discovered |-> {lot_id}, queue |-> <<lot_id>>, popped |-> <<>>],
             effective_at, action_id)

\* a mutant of FoldLoad: the fold applies the event, and apply registers the
\* lot with the repository
FoldApply(r, lot, e) ==
    [inst |-> ApplyInst(lot, e), repo |-> RepoAdd(r, ApplyInst(lot, e))]

\* lot.load(event_data) on the fold's transient lot: the lot after it and the
\* repository, which load leaves alone
FoldLoad(r, lot, e) == [inst |-> LoadEvent(lot, e), repo |-> r]

\* a mutant of FoldComposition: a source counts with the composition it was
\* created with, whatever was blended into it since
FoldCompositionOfOrigins(st, row) ==
    LET e == GetEventData(row)
        lot == st.lots[e.agg]
        lot_composition == st.comps[e.agg]
        lot_volume == lot.volume
        blended == {k \in DOMAIN e.volumes : e.volumes[k] > 0}
        new_total_volume == lot_volume + Total(e.volumes, DOMAIN e.volumes)
        kept == IF lot_volume > 0 THEN DOMAIN lot_composition ELSE {}
        comps == kept \cup blended
        new_components ==
            [comp \in comps |->
                FAdd(IF comp \in kept
                     THEN FMul(lot_composition[comp], Frac(lot_volume, new_total_volume))
                     ELSE Zero,
                     IF comp \in blended THEN Frac(e.volumes[comp], new_total_volume)
                     ELSE Zero)]
    IN  IF st.err # "" THEN st
        ELSE IF e.kind = "WineLotCreated"
        THEN [st EXCEPT !.comps = Put(@, e.agg, CreatedComposition(e)),
                        !.lots = Put(@, e.agg, FoldLoad(st.repo, NewWineLot, e).inst),
                        !.repo = FoldLoad(st.repo, NewWineLot, e).repo]
        ELSE IF ~Has(st.lots, e.agg) THEN [st EXCEPT !.err = "KeyError"]
        ELSE IF e.kind # "VolumeBlended"
        THEN IF LoadError(lot, e) # "" THEN [st EXCEPT !.err = LoadError(lot, e)]
             ELSE [st EXCEPT !.lots[e.agg] = FoldLoad(st.repo, lot, e).inst,
                             !.repo = FoldLoad(st.repo, lot, e).repo]
        ELSE IF \E k \in blended : ~Has(st.comps, k) THEN [st EXCEPT !.err = "KeyError"]
        ELSE IF new_total_volume = 0 /\ (lot_volume > 0 \/ blended # {})
        THEN [st EXCEPT !.err = "ZeroDivisionError"]
        ELSE IF ~ValidComposition(new_components)
        THEN [st EXCEPT !.err = "ValidationError"]
        ELSE [st EXCEPT !.comps[e.agg] = new_components,
                        !.lots[e.agg] = FoldLoad(st.repo, lot, e).inst,
                        !.repo = FoldLoad(st.repo, lot, e).repo]

\* one turn of the loop of _build_lot_compositions
FoldComposition(st, row) ==
    LET e == GetEventData(row)
        lot == st.lots[e.agg]
        lot_composition == st.comps[e.agg]
        lot_volume == lot.volume
        blended == {k \in DOMAIN e.volumes : e.volumes[k] > 0}
        new_total_volume == lot_volume + Total(e.volumes, DOMAIN e.volumes)
        kept == IF lot_volume > 0 THEN DOMAIN lot_composition ELSE {}
        comps == kept \cup UNION {DOMAIN st.comps[k] : k \in blended}
        new_components ==
            [comp \in comps |->
                FAdd(IF comp \in kept
                     THEN FMul(lot_composition[comp], Frac(lot_volume, new_total_volume))
                     ELSE Zero,
                     Sum([k \in blended |->
                             IF comp \in DOMAIN st.comps[k]
                             THEN FMul(st.comps[k][comp],
                                       Frac(e.volumes[k], new_total_volume))
                             ELSE Zero],
                         blended))]
    IN  IF st.err # "" THEN st
        ELSE IF e.kind = "WineLotCreated"
        THEN [st EXCEPT !.comps = Put(@, e.agg, CreatedComposition(e)),
                        !.lots = Put(@, e.agg, FoldLoad(st.repo, NewWineLot, e).inst),
                        !.repo = FoldLoad(st.repo, NewWineLot, e).repo]
        ELSE IF ~Has(st.lots, e.agg) THEN [st EXCEPT !.err = "KeyError"]
        ELSE IF e.kind # "VolumeBlended"
        THEN IF LoadError(lot, e) # "" THEN [st EXCEPT !.err = LoadError(lot, e)]
             ELSE [st EXCEPT !.lots[e.agg] = FoldLoad(st.repo, lot, e).inst,
                             !.repo = FoldLoad(st.repo, lot, e).repo]
        ELSE IF \E k \in blended : ~Has(st.comps, k) THEN [st EXCEPT !.err = "KeyError"]
        ELSE IF new_total_volume = 0 /\ (lot_volume > 0 \/ blended # {})
        THEN [st EXCEPT !.err = "ZeroDivisionError"]
        ELSE IF ~ValidComposition(new_components)
        THEN [st EXCEPT !.err = "ValidationError"]
        ELSE [st EXCEPT !.comps[e.agg] = new_components,
                        !.lots[e.agg] = FoldLoad(st.repo, lot, e).inst,
                        !.repo = FoldLoad(st.repo, lot, e).repo]

RECURSIVE FoldCompositions(_, _)
FoldCompositions(st, s) ==
    IF s = <<>> THEN st ELSE FoldCompositions(FoldComposition(st, Head(s)), Tail(s))

\* _build_lot_compositions: the compositions, the events they were built of
\* and the repository r of the process after the fold
BuildLotCompositions(r, rows, lot_ids, effective_at, action_id) ==
    LET relevant_events ==
            Cutoff({x \in rows : x.store = "lot" /\ x.agg \in lot_ids},
                   effective_at, action_id)
        st == FoldCompositions([comps |-> <<>>, lots |-> <<>>, err |-> "", repo |-> r],
                               Ordered(relevant_events))
    IN  [comps |-> st.comps, err |-> st.err, events |-> relevant_events,
         repo |-> st.repo]

\* calculate_composition once effective_at is normalised
Project(r, stored, rows, lot_id, effective_at, action_id) ==
    LET found == GetAllLotIds(rows, lot_id, effective_at, action_id)
        lot_ids == found.discovered
        built == BuildLotCompositions(r, rows, lot_ids, effective_at, action_id)
        Raised(e, after) == [err |-> e, composition |-> <<>>, lots |-> {},
                             events |-> {}, popped |-> <<>>, repo |-> after]
    IN  IF action_id # NoId /\ effective_at = NoTime THEN Raised("ValueError", r)
        ELSE IF ~IsLot(stored, lot_id) THEN Raised("ValueError", r)
        ELSE IF built.err # "" THEN Raised(built.err, built.repo)
        ELSE IF ~Has(built.comps, lot_id) THEN Raised("KeyError", built.repo)
        ELSE [err |-> "", composition |-> built.comps[lot_id], lots |-> lot_ids,
              events |-> built.events, popped |-> found.popped, repo |-> built.repo]

\* a mutant of CalculateComposition: the cutoff is taken as given
CalculateCompositionExact(r, stored, rows, lot_id, effective_at, action_id) ==
    Project(r, stored, rows, lot_id, effective_at, action_id)

\* calculate_composition: effective_at.replace(microsecond=0), then the projection
CalculateComposition(r, stored, rows, lot_id, effective_at, action_id) ==
    Project(r, stored, rows, lot_id,
            IF effective_at # NoTime THEN Trunc(effective_at) ELSE NoTime, action_id)

\* ------------------------------------------------ replay on stored histories
\* The store after lots 1, 2 and 3 were created and four operations without an
\* effective date committed at the clock readings a <= b <= x <= y: action 4
\* received 2 into lot 1, action 5 received 2 into lot 2, action 6 blended 1 of
\* lot 1 into lot 3 and action 7 blended 1 of lot 2 into lot 3; at last, when
\* d # NoTime, lot 3 was destroyed at the reading d >= y.  The readings are a
\* second or more after time 0, so that no cutoff falls on Epoch.
Lots == {1, 2, 3}

MaxBatch == 2

\* the source lots of one blend and the use cases of one history
MaxSources == 2

MaxUses == 2

LotRow(id, volume, deleted_at) ==
    [type |-> "lot", id |-> id, version |-> 1, volume |-> volume,
     deleted_at |-> deleted_at]

ActionRow(id, effective_at, action_type, lot, vol) ==
    [type |-> "action", id |-> id, version |-> 1, effective_at |-> effective_at,
     action_type |-> action_type, lot |-> lot, vol |-> vol, volumes |-> <<>>,
     revision_number |-> 0, deleted_at |-> NoTime, updated_at |-> NoTime]

HistoryRows(a, b, x, y, d) ==
    (1 :> LotRow(1, 1, NoTime)) @@ (2 :> LotRow(2, 1, NoTime)) @@ (3 :> LotRow(3, 2, d))
    @@ (4 :> ActionRow(4, a, "RECEIVE_VOLUME", 1, 2))
    @@ (5 :> ActionRow(5, b, "RECEIVE_VOLUME", 2, 2))
    @@ (6 :> [ActionRow(6, x, "BLEND", 3, 1) EXCEPT !.volumes = 1 :> 1])
    @@ (7 :> [ActionRow(7, y, "BLEND", 3, 1) EXCEPT !.volumes = 2 :> 1])

HistoryEvents(a, b, x, y, d) ==
    { StoreRow(1, WineLotCreated(1, 1), 0),
      StoreRow(2, WineLotCreated(2, 2), 0),
      StoreRow(3, WineLotCreated(3, 3), 0),
      StoreRow(4, ActionRecorded(4, 4, a, 1, 2), a),
      StoreRow(5, VolumeReceived(5, 1, 4, a, 2), a),
      StoreRow(6, ActionRecorded(6, 5, b, 2, 2), b),
      StoreRow(7, VolumeReceived(7, 2, 5, b, 2), b),
      StoreRow(8, BlendRecorded(8, 6, x, 3, 1, 1 :> 1), x),
      StoreRow(9, VolumeMoved(9, 1, 6, x, 1, 3), x),
      StoreRow(10, VolumeBlended(10, 3, 6, x, 1, 1 :> 1), x),
      StoreRow(11, BlendRecorded(11, 7, y, 3, 1, 2 :> 1), y),
      StoreRow(12, VolumeMoved(12, 2, 7, y, 1, 3), y),
      StoreRow(13, VolumeBlended(13, 3, 7, y, 1, 2 :> 1), y) }
    \cup (IF d = NoTime THEN {} ELSE {StoreRow(14, WineLotDeleted(14, 3, d), d)})

InitReplay ==
    /\ now = MaxTime
    /\ nextId = 8
    /\ nextRid = 15
    /\ nextEv = 15
    /\ \E a, b, x, y \in TicksPerSecond..MaxTime, d \in {NoTime} \cup 1..MaxTime :
          /\ a <= b /\ b <= x /\ x <= y
          /\ d = NoTime \/ d >= y
          /\ dbRows = HistoryRows(a, b, x, y, d)
          /\ dbEvents = HistoryEvents(a, b, x, y, d)
          /\ snap = [p \in Procs |->
                        [rows |-> HistoryRows(a, b, x, y, d),
                         events |-> HistoryEvents(a, b, x, y, d)]]
    /\ InitProcs([p \in Procs |-> IF p = 1 THEN 0 ELSE MaxOps])

\* the aggregates a caller can hand to a replay function: rows of one type
\* fetched by id and, for lots, a lot made by WineLot.create and not yet stored
Fetched(type, ids) == {FromRow(dbRows[id]) : id \in ids}

Unstored == ApplyInst(NewWineLot, WineLotCreated(nextEv, nextId))

Inputs ==
    LET OfType(type) == {ids \in SUBSET {id \in DOMAIN dbRows : dbRows[id].type = type} :
                            Cardinality(ids) <= MaxBatch}
    IN  {Fetched("lot", ids) : ids \in OfType("lot")}
        \cup {Fetched("lot", ids) \cup {Unstored} : ids \in OfType("lot")}
        \cup {Fetched("action", ids) : ids \in OfType("action")}

\* One call of a replay function or of the projection on the stored history:
\* none of them writes to the store, so every call sees the history as drawn.
Called(c) ==
    /\ ops[1] = 0
    /\ ops' = [ops EXCEPT ![1] = 1]
    /\ call' = [call EXCEPT ![1] = c]
    /\ UNCHANGED <<now, nextId, nextRid, nextEv, dbRows, dbEvents, pc, idx, repo, heap,
                   tx, err, result, snap, loaded, raced, delivered, trace>>

\* a call of load_editable_aggregates_at_time(aggregates, t)
CallLoadEditableAtTime ==
    \E aggs \in Inputs, t \in 0..MaxTime :
        Called([name |-> "load_editable_aggregates_at_time", aggs |-> aggs, t |-> t,
                out |-> LoadEditableAtTime(aggs, dbEvents, t)])

\* a call of load_aggregate_states_before(aggregates, t, seq)
CallLoadAggregateStatesBefore ==
    \E aggs \in Inputs, t \in 0..MaxTime, seq \in {NoSeq} \cup 4..7 :
        Called([name |-> "load_aggregate_states_before", aggs |-> aggs, t |-> t,
                seq |-> seq,
                out |-> LoadAggregateStatesBefore(aggs, dbRows, dbEvents, t, seq)])

\* a call of calculate_composition(lot_id, effective_at, action_id), with no
\* scope open: it reads the rows and the event store, and the repository of the
\* process is left as the fold leaves it
CallCalculateComposition ==
    \E lot_id \in Lots \cup {nextId}, t \in {NoTime} \cup TicksPerSecond..MaxTime,
       action_id \in {NoId} \cup 4..7 :
        LET out == CalculateComposition(repo[1], dbRows, dbEvents, lot_id, t, action_id)
        IN  /\ ops[1] = 0
            /\ ops' = [ops EXCEPT ![1] = 1]
            /\ call' = [call EXCEPT ![1] =
                            [name |-> "calculate_composition", lot_id |-> lot_id,
                             effective_at |-> t, action_id |-> action_id,
                             out |-> out]]
            /\ repo' = [repo EXCEPT ![1] = out.repo]
            /\ UNCHANGED <<now, nextId, nextRid, nextEv, dbRows, dbEvents, pc, idx,
                           heap, tx, err, result, snap, loaded, raced, delivered,
                           trace>>

NextReplay ==
    \/ CallLoadEditableAtTime
    \/ CallLoadAggregateStatesBefore
    \/ CallCalculateComposition

SpecReplay == InitReplay /\ [][NextReplay]_vars

\* ------------------------------------------------------------ blend histories
\* the arguments of record_blend_lot: the receiving lot, the volume taken from
\* each source lot (0 or 1, not all 0) and the blended volume, which is the sum
\* of the volumes or, when wine was lost in the blending, less
BlendInputs ==
    UNION {{[to |-> r, volumes |-> v, vol |-> w] : w \in 1..Total(v, DOMAIN v)} :
              r \in Lots,
              v \in UNION {[S -> 0..1] : S \in SUBSET Lots \ {{}}}}

\* the rows that the blend b, recorded as `action` without an effective date
\* at the clock reading t, appended to the stores: rows first, first + 1, ...
BlendRows(first, action, t, b) ==
    LET sources == Listed(DOMAIN b.volumes)
        n == Len(sources)
    IN  {StoreRow(first, BlendRecorded(first, action, t, b.to, b.vol, b.volumes), t)}
        \cup {StoreRow(first + i,
                       VolumeMoved(first + i, sources[i], action, t,
                                   b.volumes[sources[i]], b.to), t) : i \in 1..n}
        \cup {StoreRow(first + n + 1,
                       VolumeBlended(first + n + 1, b.to, action, t, b.vol, b.volumes),
                       t)}

\* The store after lots 1, 2 and 3 were created, actions 4 and 5 received 2
\* into lot 1 and into lot 2 at the first whole second, and actions 6 and 7
\* recorded the blends b6 and b7 without an effective date at the clock
\* readings x <= y; record_blend_lot refuses a blend of a lot into itself.
BlendHistoryEvents(x, y, b6, b7) ==
    { StoreRow(1, WineLotCreated(1, 1), 0),
      StoreRow(2, WineLotCreated(2, 2), 0),
      StoreRow(3, WineLotCreated(3, 3), 0),
      StoreRow(4, ActionRecorded(4, 4, TicksPerSecond, 1, 2), TicksPerSecond),
      StoreRow(5, VolumeReceived(5, 1, 4, TicksPerSecond, 2), TicksPerSecond),
      StoreRow(6, ActionRecorded(6, 5, TicksPerSecond, 2, 2), TicksPerSecond),
      StoreRow(7, VolumeReceived(7, 2, 5, TicksPerSecond, 2), TicksPerSecond) }
    \cup BlendRows(8, 6, x, b6) \cup BlendRows(12, 7, y, b7)

\* the rows of the aggregates after these operations: each lot's row holds the
\* fold of its events
BlendHistoryRows(x, y, b6, b7) ==
    LET events == BlendHistoryEvents(x, y, b6, b7)
        Volume(id) ==
            FoldRows(Identity(FromRow(LotRow(id, 0, NoTime))),
                     Ordered(EventsOf(events, "lot", id))).volume
        BlendRow(id, t, b) ==
            [ActionRow(id, t, "BLEND", b.to, b.vol) EXCEPT !.volumes = b.volumes]
    IN  [id \in Lots |-> LotRow(id, Volume(id), NoTime)]
        @@ (4 :> ActionRow(4, TicksPerSecond, "RECEIVE_VOLUME", 1, 2))
        @@ (5 :> ActionRow(5, TicksPerSecond, "RECEIVE_VOLUME", 2, 2))
        @@ (6 :> BlendRow(6, x, b6))
        @@ (7 :> BlendRow(7, y, b7))

\* every move of the history was validated against the volume its lot held:
\* the replay of each lot's events raises nothing
Funded(events) ==
    \A id \in Lots :
        ReplayError(Identity(FromRow(LotRow(id, 0, NoTime))),
                    Ordered(EventsOf(events, "lot", id))) = ""

InitBlends ==
    /\ now = MaxTime
    /\ nextId = 8
    /\ nextRid = 16
    /\ nextEv = 16
    /\ \E x, y \in TicksPerSecond..MaxTime, b6, b7 \in BlendInputs :
          /\ x <= y
          /\ b6.to \notin DOMAIN b6.volumes
          /\ b7.to \notin DOMAIN b7.volumes
          /\ Funded(BlendHistoryEvents(x, y, b6, b7))
          /\ dbRows = BlendHistoryRows(x, y, b6, b7)
          /\ dbEvents = BlendHistoryEvents(x, y, b6, b7)
          /\ snap = [p \in Procs |->
                        [rows |-> BlendHistoryRows(x, y, b6, b7),
                         events |-> BlendHistoryEvents(x, y, b6, b7)]]
    /\ InitProcs([p \in Procs |-> IF p = 1 THEN 0 ELSE MaxOps])

NextBlends == CallCalculateComposition

SpecBlends == InitBlends /\ [][NextBlends]_vars

\* ------------------------------------------------------- the blend use case
\* _process_action's loop: move_volume on each source lot in turn, until one
\* raises; st holds the repository, the lots, the next event number, the error
RECURSIVE MoveVolumes(_, _, _)
MoveVolumes(st, action, s) ==
    IF s = <<>> \/ st.err # "" THEN st
    ELSE LET id == Head(s)
             lot == st.lots[id]
             e == VolumeMoved(st.nev, id, action.id, action.effective_at,
                              action.volumes[id], action.lot)
             out == Apply(st.repo, lot, e)
         IN  IF lot.deleted_at # NoTime \/ action.volumes[id] < 0
             THEN [st EXCEPT !.err = "ValueError"]
             ELSE MoveVolumes([repo |-> out.repo,
                               lots |-> [st.lots EXCEPT ![id] = out.inst],
                               nev |-> st.nev + 1, err |-> out.err],
                              action, Tail(s))

\* record_blend_lot; eff = NoTime stands for effective_at=None
RecordBlendLot(r, h, nid, nev, clock, rows, events, lot_id, blend_volumes, blended_volume, eff) ==
    LET is_backdated == eff # NoTime
        effective_at == Trunc(eff)
        ids == {lot_id} \cup DOMAIN blend_volumes
        found == {id \in ids : IsLot(rows, id)}
        l == [id \in found |-> rows[id].version]
    IN  IF is_backdated /\ effective_at > clock - FutureMargin * TicksPerSecond
        THEN Outcome(r, h, nid, nev, "ValueError", <<>>)
        ELSE IF Cardinality(found) # Cardinality(DOMAIN blend_volumes) + 1
        THEN Outcome(r, h, nid, nev, "ValueError", l)
        ELSE
        LET fetched == {FromRow(rows[id]) : id \in ids}
            lots == IF is_backdated
                    THEN LoadEditableAtTime(fetched, events,
                                            effective_at + TicksPerSecond)
                    ELSE [id \in ids |-> FromRow(rows[id])]
            action == ApplyInst(NewAction,
                          BlendRecorded(nev, nid,
                                        IF is_backdated THEN effective_at ELSE clock,
                                        lot_id, blended_volume, blend_volumes))
            r1 == RepoAdd(r, action)
            h1 == Put(h, action.id, action)
            moved == MoveVolumes([repo |-> r1, lots |-> lots, nev |-> nev + 1,
                                  err |-> ""],
                                 action, Listed(DOMAIN blend_volumes))
            blended == Apply(moved.repo, moved.lots[lot_id],
                             VolumeBlended(moved.nev, lot_id, action.id,
                                           action.effective_at, blended_volume,
                                           blend_volumes))
            lots2 == [moved.lots EXCEPT ![lot_id] = blended.inst]
            With(insts) == [id \in DOMAIN h1 \cup ids |->
                               IF id \in ids THEN insts[id] ELSE h1[id]]
            lots3 == [id \in ids |->
                         ReapplyDownstream(lots2[id], events, action.effective_at,
                                           action.id)]
        IN  IF is_backdated
               /\ LoadEditableAtTimeError(fetched, events,
                                          effective_at + TicksPerSecond) # ""
            THEN Outcome(r, h, nid, nev, "ValueError", l)
            ELSE IF blended_volume <= 0 \/ Total(blend_volumes, DOMAIN blend_volumes) = 0
            THEN Outcome(r, h, nid, nev, "ValueError", l)
            ELSE IF moved.err # ""
            THEN Outcome(moved.repo, With(moved.lots), nid + 1, moved.nev, moved.err, l)
            ELSE IF moved.lots[lot_id].deleted_at # NoTime
            THEN Outcome(moved.repo, With(moved.lots), nid + 1, moved.nev,
                         "ValueError", l)
            ELSE IF is_backdated
                    /\ \E id \in ids :
                          ReapplyDownstreamError(lots2[id], events,
                                                 action.effective_at, action.id) # ""
            THEN Outcome(blended.repo, With(lots2), nid + 1, moved.nev + 1,
                         "ValueError", l)
            ELSE Outcome(blended.repo,
                         With(IF is_backdated THEN lots3 ELSE lots2),
                         nid + 1, moved.nev + 1, "", l)

\* the instants a caller passes as effective_at: none, half a second after
\* time 0, and the present instant
EffectiveDates == {NoTime, 1, now}

\* the volumes a caller passes to record_receive_volume: any Decimal is taken
SignedVolumes == {-1, 1}

BodyReceiveVolume(p) ==
    /\ pc[p] = "body"
    /\ \E lot_id \in Lots, volume \in SignedVolumes, eff \in EffectiveDates :
          BodyDone(p, RecordReceiveVolume(repo[p], heap[p], nextId, nextEv, now, dbRows,
                                          dbEvents, lot_id, volume, eff),
                   [name |-> "record_receive_volume", lot |-> lot_id, volume |-> volume,
                    eff |-> eff])

BodyRecordBlendLot(p) ==
    /\ pc[p] = "body"
    /\ \E b \in BlendInputs, eff \in EffectiveDates :
          /\ Cardinality(DOMAIN b.volumes) <= MaxSources
          /\ BodyDone(p, RecordBlendLot(repo[p], heap[p], nextId, nextEv, now, dbRows,
                                        dbEvents, b.to, b.volumes, b.vol, eff),
                      [name |-> "record_blend_lot", lot |-> b.to,
                       volumes |-> b.volumes, volume |-> b.vol, eff |-> eff])

\* Lots 1, 2 and 3 exist, lots 1 and 2 hold the 2 that actions 4 and 5 received
\* at the first whole second, and the clock reads MaxTime.
CellarEvents ==
    { StoreRow(1, WineLotCreated(1, 1), 0),
      StoreRow(2, WineLotCreated(2, 2), 0),
      StoreRow(3, WineLotCreated(3, 3), 0),
      StoreRow(4, ActionRecorded(4, 4, TicksPerSecond, 1, 2), TicksPerSecond),
      StoreRow(5, VolumeReceived(5, 1, 4, TicksPerSecond, 2), TicksPerSecond),
      StoreRow(6, ActionRecorded(6, 5, TicksPerSecond, 2, 2), TicksPerSecond),
      StoreRow(7, VolumeReceived(7, 2, 5, TicksPerSecond, 2), TicksPerSecond) }

CellarRows ==
    (1 :> LotRow(1, 2, NoTime)) @@ (2 :> LotRow(2, 2, NoTime))
    @@ (3 :> LotRow(3, 0, NoTime))
    @@ (4 :> ActionRow(4, TicksPerSecond, "RECEIVE_VOLUME", 1, 2))
    @@ (5 :> ActionRow(5, TicksPerSecond, "RECEIVE_VOLUME", 2, 2))

InitCellar ==
    /\ now = MaxTime
    /\ nextId = 6
    /\ nextRid = 8
    /\ nextEv = 8
    /\ dbRows = CellarRows
    /\ dbEvents = CellarEvents
    /\ snap = [p \in Procs |-> [rows |-> CellarRows, events |-> CellarEvents]]
    /\ InitProcs([p \in Procs |-> IF p = 1 THEN MaxOps - MaxUses ELSE MaxOps])

NextCellar ==
    \/ Enter(1)
    \/ BodyReceiveVolume(1)
    \/ BodyRecordBlendLot(1)
    \/ Unwind(1)
    \/ PersistAggregate(1)
    \/ StoreEvents(1)
    \/ DeleteEvents(1)
    \/ DispatchOne(1)
    \/ Clear(1)
    \/ Commit(1)

SpecCellar == InitCellar /\ [][NextCellar]_vars

\* ------------------------------------------------------- cursor pagination
\* A table of rows, each with a value `key` under the primary key of the
\* iteration, which several rows may share, and a unique `id`, the tiebreaker.
MaxRows == 3

MaxSize == 2

MaxInserts == 1

Keys == {1, 2}

TableRow(id, key) == [type |-> "row", id |-> id, version |-> 1, key |-> key]

\* a < b in order_by(primary_key, tiebreaker_key), or in order_by(primary_key)
\* when there is no tiebreaker; c holds the arguments of cursor()
Precedes(a, b, c) ==
    \/ IF c.primary_desc THEN a.key > b.key ELSE a.key < b.key
    \/ /\ c.tiebreaker
       /\ a.key = b.key
       /\ IF c.tiebreaker_desc THEN a.id > b.id ELSE a.id < b.id

\* the rows S as the ordered query lists them (rows the ordering does not
\* tell apart are listed by id)
RECURSIVE Sorted(_, _)
Sorted(S, c) ==
    IF S = {} THEN <<>>
    ELSE LET m == CHOOSE x \in S :
                      \A y \in S \ {x} :
                          Precedes(x, y, c) \/ (~Precedes(y, x, c) /\ x.id < y.id)
         IN  <<m>> \o Sorted(S \ {m}, c)

\* list(qset[: size + 1])
Page(S, c) ==
    LET all == Sorted(S, c)
    IN  SubSeq(all, 1, IF Len(all) < c.size + 1 THEN Len(all) ELSE c.size + 1)

\* the filter of the next page: the primary key is beyond the last used one,
\* or it is the same and the tiebreaker is beyond the last used one
Beyond(x, last, c) ==
    \/ IF c.primary_desc THEN x.key < last.key ELSE x.key > last.key
    \/ /\ c.tiebreaker
       /\ x.key = last.key
       /\ IF c.tiebreaker_desc THEN x.id < last.id ELSE x.id > last.id

\* a mutant of LastUsed: the row fetched last, which was not yielded
LastFetched(results) == results[Len(results)]

\* last_used = results[-2]
LastUsed(results) == results[Len(results) - 1]

\* results[:size]
Yieldable(c) == IF Len(c.results) < c.size THEN Len(c.results) ELSE c.size

Table == {dbRows[id] : id \in DOMAIN dbRows}

CursorFrame ==
    UNCHANGED <<now, nextRid, nextEv, dbEvents, idx, repo, heap, tx, err, result, ops,
                snap, loaded, raced, delivered, trace>>

\* the first next() on cursor(qset, primary_key, tiebreaker_key, size): the
\* first page is fetched
CursorOpen ==
    /\ pc[1] = "idle"
    /\ \E size \in 1..MaxSize, tiebreaker, primary_desc, tiebreaker_desc \in BOOLEAN :
          LET c == [name |-> "cursor", size |-> size, tiebreaker |-> tiebreaker,
                    primary_desc |-> primary_desc,
                    tiebreaker_desc |-> tiebreaker /\ tiebreaker_desc]
          IN  /\ tiebreaker \/ ~tiebreaker_desc
              /\ tiebreaker \/ \A a, b \in Table : a.key = b.key => a = b
              /\ call' = [call EXCEPT ![1] =
                             c @@ [results |-> Page(Table, c), next |-> 1,
                                   yielded |-> <<>>, first |-> Table, passed |-> {},
                                   inserted |-> 0]]
    /\ pc' = [pc EXCEPT ![1] = "yield"]
    /\ UNCHANGED <<dbRows, nextId>>
    /\ CursorFrame

\* yield from results[:size]: the next row of the page
CursorYield ==
    /\ pc[1] = "yield"
    /\ call[1].next <= Yieldable(call[1])
    /\ call' = [call EXCEPT ![1].yielded = Append(@, call[1].results[call[1].next]),
                            ![1].next = @ + 1]
    /\ UNCHANGED <<dbRows, nextId, pc>>
    /\ CursorFrame

\* while len(results) > size: the next page is fetched
CursorNextPage ==
    /\ pc[1] = "yield"
    /\ call[1].next > Yieldable(call[1])
    /\ Len(call[1].results) > call[1].size
    /\ LET last_used == LastUsed(call[1].results)
       IN  call' = [call EXCEPT ![1].results =
                                    Page({x \in Table : Beyond(x, last_used, call[1])},
                                         call[1]),
                                ![1].next = 1]
    /\ UNCHANGED <<dbRows, nextId, pc>>
    /\ CursorFrame

\* len(results) <= size: the generator returns
CursorReturn ==
    /\ pc[1] = "yield"
    /\ call[1].next > Yieldable(call[1])
    /\ Len(call[1].results) <= call[1].size
    /\ pc' = [pc EXCEPT ![1] = "done"]
    /\ UNCHANGED <<dbRows, nextId, call>>
    /\ CursorFrame

\* Another process inserts a row while the iteration is under way.  The row
\* is at a position the cursor has passed when it does not come after the
\* last row of the page in hand.  Without a tiebreaker the keys stay unique.
ConcurrentInsert ==
    /\ pc[1] = "yield"
    /\ call[1].inserted < MaxInserts
    /\ \E key \in Keys :
          LET x == TableRow(nextId, key)
              c == call[1]
              passed == /\ Yieldable(c) > 0
                        /\ ~Precedes(c.results[Yieldable(c)], x, c)
          IN  /\ c.tiebreaker \/ \A a \in Table : a.key # key
              /\ dbRows' = Put(dbRows, nextId, x)
              /\ call' = [call EXCEPT ![1].inserted = @ + 1,
                                      ![1].passed = IF passed THEN @ \cup {x} ELSE @]
    /\ nextId' = nextId + 1
    /\ UNCHANGED pc
    /\ CursorFrame

InitCursor ==
    /\ now = 1
    /\ nextRid = 1
    /\ nextEv = 1
    /\ dbEvents = {}
    /\ \E n \in 0..MaxRows :
          /\ nextId = n + 1
          /\ \E keys \in [1..n -> Keys] :
                dbRows = [id \in 1..n |-> TableRow(id, keys[id])]
    /\ snap = [p \in Procs |-> [rows |-> <<>>, events |-> {}]]
    /\ InitProcs([p \in Procs |-> MaxOps])

CursorStep == CursorOpen \/ CursorYield \/ CursorNextPage \/ CursorReturn

NextCursor == CursorStep \/ ConcurrentInsert

\* the caller keeps asking for the next row
SpecCursor == InitCursor /\ [][NextCursor]_vars /\ WF_vars(CursorStep)

\* ------------------------------------------------------- fetching events
\* The rows of one aggregate as a query returns them: a listing of the rows
\* that agrees with the ordering, rows the ordering does not tell apart coming
\* in any order.
MaxEvents == 3

Listings(S) ==
    {q \in [1..Cardinality(S) -> S] : \A i, j \in 1..Cardinality(S) : q[i] = q[j] => i = j}

\* get_events_queryset(aggregate_id), under Meta.ordering
Fetch(S) ==
    {q \in Listings(S) : \A i, j \in 1..Len(q) : i < j => ~RowBefore(q[j], q[i])}

\* AggregateEventModelQuerySet.reverse: occurred_at descending, sequence_number
\* descending with NULLs last, id descending
RowBeforeReversed(a, b) ==
    \/ a.at > b.at
    \/ a.at = b.at /\ a.seq # NoSeq /\ b.seq = NoSeq
    \/ a.at = b.at /\ a.seq # NoSeq /\ b.seq # NoSeq /\ a.seq > b.seq
    \/ a.at = b.at /\ a.seq = b.seq /\ a.rid > b.rid

\* get_events_queryset(aggregate_id).reverse()
FetchReversed(S) ==
    {q \in Listings(S) : \A i, j \in 1..Len(q) : i < j => ~RowBeforeReversed(q[j], q[i])}

\* The rows of lot 1: its deletions, and the receipts of actions 2 and 3, each
\* at the effective date of its action; an edit that raced another one leaves
\* two receipts of one action.
FetchRow(rid, kind, at2, at3) ==
    CASE kind = "deleted1" -> StoreRow(rid, WineLotDeleted(rid, 1, 1), 1)
      [] kind = "deleted2" -> StoreRow(rid, WineLotDeleted(rid, 1, 2), 2)
      [] kind = "received2" -> StoreRow(rid, VolumeReceived(rid, 1, 2, at2, 1), at2)
      [] kind = "received3" -> StoreRow(rid, VolumeReceived(rid, 1, 3, at3, 1), at3)

InitFetch ==
    /\ now = 2
    /\ nextId = 4
    /\ dbRows = <<>>
    /\ \E n \in 0..MaxEvents, at2, at3 \in {1, 2} :
          /\ nextRid = n + 1
          /\ nextEv = n + 1
          /\ \E kinds \in [1..n -> {"deleted1", "deleted2", "received2", "received3"}] :
                dbEvents = {FetchRow(rid, kinds[rid], at2, at3) : rid \in 1..n}
    /\ snap = [p \in Procs |-> [rows |-> <<>>, events |-> {}]]
    /\ InitProcs([p \in Procs |-> 0])

\* two fetches of the events of lot 1 and a fetch of them in reverse
FetchEvents ==
    /\ ops[1] = 0
    /\ ops' = [ops EXCEPT ![1] = 1]
    /\ LET S == EventsOf(dbEvents, "lot", 1)
       IN  \E first, second \in Fetch(S), reversed \in FetchReversed(S) :
              call' = [call EXCEPT ![1] =
                          [name |-> "fetch", first |-> first, second |-> second,
                           reversed |-> reversed]]
    /\ UNCHANGED <<now, nextId, nextRid, nextEv, dbRows, dbEvents, pc, idx, repo, heap,
                   tx, err, result, snap, loaded, raced, delivered, trace>>

NextFetch == FetchEvents

SpecFetch == InitFetch /\ [][NextFetch]_vars

\* ------------------------------------------- aggregates in a unit of work
\* One unit of work of process 1 on a stored history, seen at the calls it makes
\* on the aggregate instances it holds: lot 1 fetched twice (two instances of
\* one id), a view of lot 1 before t, and action 4.  The repository is empty.
Slots == 1..4

InitApply ==
    /\ now = MaxTime
    /\ nextId = 8
    /\ nextRid = 15
    /\ nextEv = 15
    /\ dbRows = HistoryRows(1, 1, 2, 3, NoTime)
    /\ dbEvents = HistoryEvents(1, 1, 2, 3, NoTime)
    /\ snap = [p \in Procs |-> [rows |-> dbRows, events |-> dbEvents]]
    /\ pc = [p \in Procs |-> "idle"]
    /\ idx = [p \in Procs |-> 1]
    /\ repo = [p \in Procs |-> EmptyRepo]
    /\ \E t \in 1..MaxTime :
          heap = [p \in Procs |->
                     IF p = 1
                     THEN << FromRow(dbRows[1]), FromRow(dbRows[1]),
                             LoadAggregateStatesBefore({FromRow(dbRows[1])}, dbRows,
                                                       dbEvents, t, NoSeq)[1],
                             FromRow(dbRows[4]) >>
                     ELSE <<>>]
    /\ tx = [p \in Procs |-> NoTx]
    /\ err = [p \in Procs |-> ""]
    /\ result = [p \in Procs |-> "none"]
    /\ ops = [p \in Procs |-> IF p = 1 THEN 0 ELSE MaxOps]
    /\ call = [p \in Procs |-> [name |-> "none"]]
    /\ loaded = [p \in Procs |-> <<>>]
    /\ raced = [p \in Procs |-> {}]
    /\ trace = [p \in Procs |-> <<>>]
    /\ delivered = <<>>

\* the events a caller makes for the instance: for a lot, a receipt (no
\* validator), a move (validated against the volume) and an action's event (no
\* handler on a lot); for an action, an edit and a lot's event (no handler)
Menu(inst) ==
    IF inst.type = "lot"
    THEN {VolumeReceived(nextEv, inst.id, nextId, now, 1),
          ActionEdited(nextEv, inst.id, now, inst.id, 1)}
         \cup {VolumeMoved(nextEv, inst.id, nextId, now, v, 3) : v \in Volumes}
    ELSE {ActionEdited(nextEv, inst.id, now, 1, 1),
          VolumeReceived(nextEv, inst.id, nextId, now, 1)}

\* what a call saw when it started
Before == [heap |-> heap[1], repo |-> repo[1], rows |-> dbRows, events |-> dbEvents]

\* one call: the instance in the slot, the repository, the rows and the error
\* after it
Returned(c, slot, inst, r, rows, e) ==
    /\ ops[1] < MaxOps
    /\ ops' = [ops EXCEPT ![1] = @ + 1]
    /\ call' = [call EXCEPT ![1] = c @@ [slot |-> slot, before |-> Before]]
    /\ heap' = [heap EXCEPT ![1][slot] = inst]
    /\ repo' = [repo EXCEPT ![1] = r]
    /\ dbRows' = rows
    /\ err' = [err EXCEPT ![1] = e]
    /\ UNCHANGED <<now, nextId, nextRid, dbEvents, pc, idx, tx, result, snap, loaded,
                   raced, delivered, trace>>

\* aggregate.apply(event)
CallApply ==
    \E slot \in Slots : \E e \in Menu(heap[1][slot]) :
        LET out == Apply(repo[1], heap[1][slot], e)
        IN  /\ Returned([name |-> "apply", event |-> e], slot, out.inst, out.repo,
                        dbRows, out.err)
            /\ nextEv' = nextEv + 1

\* aggregate.load(event)
CallLoad ==
    \E slot \in Slots : \E e \in Menu(heap[1][slot]) :
        LET out == Load(heap[1][slot], e)
        IN  /\ Returned([name |-> "load", event |-> e], slot, out.inst, repo[1],
                        dbRows, out.err)
            /\ nextEv' = nextEv + 1

\* AggregateRepository().add(aggregate) once more, on an instance that apply
\* has registered
CallAdd ==
    \E slot \in Slots :
        /\ IsPersistable(heap[1][slot])
        /\ heap[1][slot].recorded # <<>>
        /\ Returned([name |-> "add"], slot, heap[1][slot],
                    RepoAdd(repo[1], heap[1][slot]), dbRows, "")
        /\ UNCHANGED nextEv

\* aggregate.persist()
CallPersist ==
    \E slot \in Slots :
        LET out == PersistInst(heap[1][slot], dbRows)
        IN  /\ Returned([name |-> "persist"], slot, out.inst, repo[1], out.rows,
                        out.err)
            /\ UNCHANGED nextEv

NextApply == CallApply \/ CallLoad \/ CallAdd \/ CallPersist

SpecApply == InitApply /\ [][NextApply]_vars

\* the stored events of the aggregate behind the instance a
Stored(a) == EventsOf(dbEvents, a.type, a.id)

\* identity(): nothing but the id and the version of a, already added
Blank(a) == [New(a.type) EXCEPT !.id = a.id, !.version = a.version, !.adding = FALSE]

\* C13: load_editable_aggregates_at_time(aggregates, t) returns one instance per
\* input.  For a persisted input it is a new instance with the input's id and
\* version whose state is the fold, in canonical order, of exactly the
\* aggregate's events with occurred_at <= t, unmarked; when there is no such
\* event, it is the fold of the single earliest stored event, marked for
\* backdating.  An unpersisted input comes back as it was, marked for backdating.
C13_LoadEditableAtTime ==
    LET c == call[1]
    IN  c.name = "load_editable_aggregates_at_time" =>
            /\ DOMAIN c.out = {a.id : a \in c.aggs}
            /\ \A a \in c.aggs :
                  LET o == c.out[a.id]
                      window == {r \in Stored(a) : r.at <= c.t}
                  IN  IF a.adding THEN o = [a EXCEPT !.backdating = TRUE]
                      ELSE IF window # {}
                      THEN o = FoldRows(Blank(a), Ordered(window))
                      ELSE o = [FoldRows(Blank(a), <<Head(Ordered(Stored(a)))>>)
                                   EXCEPT !.backdating = TRUE]

\* a call with a stored lot that has events on both sides of t, together with
\* an unstored lot
C13_Witness ==
    LET c == call[1]
    IN  /\ c.name = "load_editable_aggregates_at_time"
        /\ \E a \in c.aggs : a.adding
        /\ \E a \in c.aggs :
              /\ ~a.adding
              /\ \E r \in Stored(a) : r.at = c.t /\ r.seq # NoSeq
              /\ \E r \in Stored(a) : r.at > c.t
              /\ c.out[a.id].volume = 2

\* C14: load_aggregate_states_before(aggregates, t, seq) returns for every stored
\* aggregate a snapshot whose state is the fold of exactly the aggregate's events
\* strictly before (t, seq) in canonical order, a NULL sequence_number coming
\* first at its occurred_at, and of no other event (strictly before t when seq is
\* absent).
C14_StatesBeforeFoldsEventsBefore ==
    LET c == call[1]
    IN  c.name = "load_aggregate_states_before" =>
            \A a \in c.aggs :
                LET before == {r \in Stored(a) :
                                  r.at < c.t \/ (r.at = c.t /\ r.seq < c.seq)}
                IN  ~a.adding =>
                        Fields(c.out[a.id]) = Fields(FoldRows(Blank(a), Ordered(before)))

\* how often e occurs in the sequence s
Count(e, s) == Cardinality({i \in 1..Len(s) : s[i] = e})

\* how often e occurs in the lists of the dictionary d
CountIn(e, d) == Cardinality({<<i, j>> \in (1..Len(d)) \X (1..MaxOps + 1) :
                                 j <= Len(d[i].v) /\ d[i].v[j] = e})

\* the instance carries _persistable = False
IsView(inst) == IF Has(inst, "persistable") THEN ~inst.persistable ELSE FALSE

\* the instance the last call was made on, as it was before the call
Callee == call[1].before.heap[call[1].slot]

\* C15: an aggregate returned by load_aggregate_states_before is never written:
\* persist() on it raises CannotPersistAggregateView and leaves the rows and the
\* event store as they were, apply() on it leaves the repository as it was, and
\* no event applied to it is in any of the repository's buffers.
C15_ViewsAreNeverWritten ==
    LET c == call[1]
    IN  /\ \A s \in Slots : IsView(heap[1][s]) =>
              \A e \in Range(heap[1][s].recorded) :
                  /\ Count(e, repo[1].events) = 0
                  /\ CountIn(e, repo[1].stores) = 0
                  /\ \A id \in DOMAIN repo[1].newEv : Count(e, repo[1].newEv[id]) = 0
        /\ (c.name = "persist" /\ IsView(Callee)) =>
              /\ err[1] = "CannotPersistAggregateView"
              /\ dbRows = c.before.rows
              /\ dbEvents = c.before.events
              /\ heap[1] = c.before.heap
        /\ (c.name = "apply" /\ IsView(Callee)) => repo[1] = c.before.repo

\* persist() was called on a view that an event had been applied to, while the
\* repository held events of other instances
C15_Witness ==
    /\ call[1].name = "persist"
    /\ IsView(Callee)
    /\ Callee.recorded # <<>>
    /\ repo[1].events # <<>>
    /\ err[1] = "CannotPersistAggregateView"

\* the fields of n that do not hold domain state are those of o
SameButState(n, o) ==
    IF o.type = "lot"
    THEN [n EXCEPT !.volume = o.volume, !.deleted_at = o.deleted_at] = o
    ELSE [n EXCEPT !.lot = o.lot, !.vol = o.vol, !.revision_number = o.revision_number,
                   !.updated_at = o.updated_at] = o

\* C16: load(event) changes only the domain state of the aggregate it is called
\* on: its recorded events, the other instances, the four buffers of the
\* repository, the aggregate rows and the event store are as before, and nothing
\* is delivered.
C16_LoadTouchesOnlyState ==
    LET c == call[1]
    IN  c.name = "load" =>
            /\ repo[1] = c.before.repo
            /\ dbRows = c.before.rows
            /\ dbEvents = c.before.events
            /\ delivered = <<>>
            /\ \A s \in Slots \ {c.slot} : heap[1][s] = c.before.heap[s]
            /\ heap[1][c.slot].recorded = Callee.recorded
            /\ SameButState(heap[1][c.slot], Callee)

\* load() changed the volume of a lot that had recorded events, while the
\* repository held them
C16_Witness ==
    /\ call[1].name = "load"
    /\ err[1] = ""
    /\ Callee.type = "lot"
    /\ heap[1][call[1].slot].volume # Callee.volume
    /\ Callee.recorded # <<>>
    /\ repo[1].events # <<>>

\* C17: apply(event) fails exactly when the aggregate's context validator for
\* the kind raises (a move of more than the lot holds) or the aggregate has no
\* apply_<kind> handler; then every instance and the repository are as before
\* the call.  A kind without a validator is applied without failure.
C17_FailedApplyLeavesNothing ==
    LET c == call[1]
        refused == Callee.type = "lot" /\ c.event.kind = "VolumeMoved"
                   /\ Callee.volume < c.event.vol
        unhandled == IF Callee.type = "lot"
                     THEN c.event.kind \in {"ActionRecorded", "ActionEdited"}
                     ELSE c.event.kind \notin {"ActionRecorded", "ActionEdited"}
    IN  c.name = "apply" =>
            /\ err[1] # "" <=> (refused \/ unhandled)
            /\ err[1] # "" => heap[1] = c.before.heap /\ repo[1] = c.before.repo
            /\ err[1] = "" => heap[1][c.slot].recorded = Append(Callee.recorded, c.event)

\* the validator refused a move on a lot that had recorded an event before
C17_Witness ==
    /\ call[1].name = "apply"
    /\ err[1] = "ValueError"
    /\ Callee.recorded # <<>>
    /\ IsPersistable(Callee)

\* C18: within a unit of work every event applied to a persistable instance is
\* exactly once in the repository's notification list and exactly once in the
\* append list of its store, two instances of one aggregate id included; add()
\* called again without a new event leaves the buffers as they are.
C18_EachEventBufferedOnce ==
    /\ \A s \in Slots : IsPersistable(heap[1][s]) =>
          \A e \in Range(heap[1][s].recorded) :
              Count(e, repo[1].events) = 1 /\ CountIn(e, repo[1].stores) = 1
    /\ call[1].name = "add" => repo[1] = call[1].before.repo

\* the events of the store `lot` with aggregate id in ids
LotEvents(ids) == {r \in dbEvents : r.store = "lot" /\ r.agg \in ids}

\* the two blends into lot 3 carry the same occurred_at
SameTimeBlends ==
    \E r, q \in LotEvents({3}) : r.seq = 6 /\ q.seq = 7 /\ r.at = q.at

Half == <<1, 2>>

\* C19: calculate_composition(lot, effective_at=T) builds the composition of
\* exactly the events with occurred_at <= T, and with action_id=X of exactly the
\* events with occurred_at < T or (occurred_at = T and sequence_number <= X).
\* For the two blends into lot 3 at the same T, by action 6 and then action 7,
\* the call at T gives the halves of both sources and the call at (T, 6) gives
\* the first source alone.
C19_CompositionCutoff ==
    LET c == call[1]
        T == c.effective_at
        X == c.action_id
        Within(r) == IF X = NoId THEN r.at <= T
                     ELSE r.at < T \/ (r.at = T /\ r.seq # NoSeq /\ r.seq <= X)
    IN  (c.name = "calculate_composition" /\ T # NoTime /\ IsLot(dbRows, c.lot_id)) =>
            /\ c.out.err = ""
            /\ c.out.events = {r \in LotEvents(c.out.lots) : Within(r)}
            /\ \A r \in LotEvents({c.lot_id}) :
                  (r.ev.kind = "VolumeBlended" /\ Within(r)) =>
                      DOMAIN r.ev.volumes \subseteq c.out.lots
            /\ (c.lot_id = 3 /\ SameTimeBlends /\ dbRows[7].effective_at = T) =>
                  /\ X = NoId => c.out.composition = (1 :> Half) @@ (2 :> Half)
                  /\ X = 6 => c.out.composition = (1 :> One)

\* C20: the projection selects, for each lot it folds, the events of the window
\* of load_editable_aggregates_at_time_and_point(t, seq) when an action id is
\* given and of load_editable_aggregates_at_time(t) when it is not, and it
\* discovers the sources with the cutoff it folds with.
C20_ReadAndWriteCutoffsAgree ==
    LET c == call[1]
        t == c.effective_at
        seq == c.action_id
        Sources(ids) == UNION {DOMAIN r.ev.volumes :
                                  r \in {x \in c.out.events :
                                            x.agg \in ids /\ x.ev.kind = "VolumeBlended"}}
    IN  (c.name = "calculate_composition" /\ t # NoTime /\ c.out.err = "") =>
            /\ \A id \in c.out.lots :
                  {r \in c.out.events : r.agg = id} =
                      IF seq # NoId THEN PointWindow(LotEvents({id}), t, seq)
                      ELSE TimeWindow(LotEvents({id}), t)
            /\ c.lot_id \in c.out.lots
            /\ Sources(c.out.lots) \subseteq c.out.lots
            /\ \A S \in SUBSET c.out.lots :
                  (c.lot_id \in S /\ Sources(S) \subseteq S) => S = c.out.lots
\* the volume the lot id holds after the events s: what it received and what
\* was blended into it, less what was moved out of it
RECURSIVE VolumeAfter(_, _)
VolumeAfter(id, s) ==
    IF s = <<>> THEN 0
    ELSE LET e == s[Len(s)].ev
             rest == VolumeAfter(id, SubSeq(s, 1, Len(s) - 1))
         IN  IF e.agg # id THEN rest
             ELSE IF e.kind \in {"VolumeReceived", "VolumeBlended"} THEN rest + e.vol
             ELSE IF e.kind = "VolumeMoved" THEN rest - e.vol
             ELSE rest

\* a composition as the share of every lot's original component, 0 when absent
Dense(c) == [k \in Lots |-> IF Has(c, k) THEN c[k] ELSE Zero]

\* the composition of the lot id after the events s, by the rule of the blend:
\* the last event decides, and a blend mixes what the lot and the sources were
\* before it
RECURSIVE MixAfter(_, _)
MixAfter(id, s) ==
    IF s = <<>> THEN [k \in Lots |-> Zero]
    ELSE LET e == s[Len(s)].ev
             before == SubSeq(s, 1, Len(s) - 1)
             V_old == VolumeAfter(id, before)
             V_new == V_old + Total(e.volumes, DOMAIN e.volumes)
             sources == {j \in DOMAIN e.volumes : e.volumes[j] > 0}
         IN  IF e.agg # id THEN MixAfter(id, before)
             ELSE IF e.kind = "WineLotCreated"
             THEN [k \in Lots |-> IF k = id THEN One ELSE Zero]
             ELSE IF e.kind = "VolumeBlended"
             THEN [k \in Lots |->
                      FAdd(FMul(MixAfter(id, before)[k], Frac(V_old, V_new)),
                           Sum([j \in sources |->
                                   FMul(MixAfter(j, before)[k],
                                        Frac(e.volumes[j], V_new))],
                               sources))]
             ELSE MixAfter(id, before)

\* C21: the composition calculate_composition returns is the one the blend rule
\* gives on the events it folded, taken in canonical order: a VolumeBlended
\* event of a lot holding V_old replaces the lot's composition by the old one
\* scaled by V_old / V_new plus each source's composition at that point scaled
\* by its blend volume / V_new, with V_new = V_old + the sum of the source
\* volumes, and no other event changes it; so a blend into an empty lot gives
\* the volume-weighted mix of its sources.
C21_BlendFold ==
    LET c == call[1]
        s == Ordered(c.out.events)
        last == CHOOSE i \in 1..Len(s) :
                    /\ s[i].agg = c.lot_id /\ s[i].ev.kind = "VolumeBlended"
                    /\ \A j \in (i + 1)..Len(s) :
                          ~(s[j].agg = c.lot_id /\ s[j].ev.kind = "VolumeBlended")
        v == s[last].ev.volumes
    IN  (c.name = "calculate_composition" /\ c.out.err = "") =>
            /\ Dense(c.out.composition) = MixAfter(c.lot_id, s)
            /\ ( /\ \E r \in c.out.events :
                       r.agg = c.lot_id /\ r.ev.kind = "VolumeBlended"
                 /\ VolumeAfter(c.lot_id, SubSeq(s, 1, last - 1)) = 0 ) =>
                  \A k \in Lots :
                      Dense(c.out.composition)[k] =
                          Sum([j \in DOMAIN v |->
                                  FMul(MixAfter(j, SubSeq(s, 1, last - 1))[k],
                                       Frac(v[j], Total(v, DOMAIN v)))],
                              DOMAIN v)

\* C21 witness: lot 2, holding 2 of its own, took 1 of lot 1, and the empty lot
\* 3 then took 1 of lot 2: lot 3 is one third lot 1 and two thirds lot 2.
C21_Witness ==
    /\ call[1].name = "calculate_composition"
    /\ call[1].lot_id = 3
    /\ call[1].effective_at = NoTime
    /\ call[1].action_id = NoId
    /\ dbRows[6].lot = 2 /\ dbRows[6].volumes = (1 :> 1)
    /\ dbRows[7].lot = 3 /\ dbRows[7].volumes = (2 :> 1)
    /\ call[1].out.err = ""
    /\ call[1].out.composition = (1 :> <<1, 3>>) @@ (2 :> <<2, 3>>)
\* C22: in every committed history the use cases reach (every lot is created
\* of components that sum to 1), calculate_composition never fails on the
\* Composition sum check, for any lot: every composition the fold builds sums
\* to a value within 0.9999 .. 1.0001.
C22_CompositionsSumToOne ==
    pc[1] = "idle" =>
        \A id \in Lots :
            CalculateComposition(repo[1], dbRows, dbEvents, id, NoTime, NoId).err
                # "ValidationError"
\* C23: source discovery ends after popping each discovered lot once, also
\* when the blends go round in a circle, and returns the smallest set that
\* holds the target lot and, with each member, every source lot named in one
\* of the member's VolumeBlended events within the cutoff handed to it.
C23_DiscoveryIsLeastClosedSet ==
    LET c == call[1]
        T == Trunc(c.effective_at)
        Within(r) == IF c.effective_at = NoTime THEN TRUE
                     ELSE IF c.action_id = NoId THEN r.at <= T
                     ELSE r.at < T
                          \/ (r.at = T /\ r.seq # NoSeq /\ r.seq <= c.action_id)
        Sources(S) == UNION {DOMAIN r.ev.volumes :
                                r \in {x \in LotEvents(S) :
                                          x.ev.kind = "VolumeBlended" /\ Within(x)}}
        Closed(S) == c.lot_id \in S /\ Sources(S) \subseteq S
    IN  (c.name = "calculate_composition" /\ c.out.err = "") =>
            /\ Closed(c.out.lots)
            /\ \A S \in SUBSET Lots : Closed(S) => c.out.lots \subseteq S
            /\ Range(c.out.popped) = c.out.lots
            /\ Len(c.out.popped) = Cardinality(c.out.lots)

\* C23 witness: lot 1 was blended into lot 2 and then lot 2 into lot 1; the
\* discovery from lot 1 popped lot 1, then lot 2, and stopped.
C23_Witness ==
    /\ call[1].name = "calculate_composition"
    /\ call[1].lot_id = 1
    /\ call[1].effective_at = NoTime
    /\ dbRows[6].lot = 2 /\ DOMAIN dbRows[6].volumes = {1}
    /\ dbRows[7].lot = 1 /\ DOMAIN dbRows[7].volumes = {2}
    /\ call[1].out.err = ""
    /\ call[1].out.popped = <<1, 2>>
    /\ call[1].out.lots = {1, 2}
\* C24: calculate_composition raises ValueError when action_id is given
\* without effective_at and when the lot does not exist, and whether it returns
\* or raises, the aggregate rows, the event store and the buffers of the
\* repository are what they were before the call.
C24_ProjectionReadsOnly ==
    LET c == call[1]
    IN  c.name = "calculate_composition" =>
            /\ (c.action_id # NoId /\ c.effective_at = NoTime) => c.out.err = "ValueError"
            /\ ~IsLot(dbRows, c.lot_id) => c.out.err = "ValueError"
            /\ dbRows = snap[1].rows
            /\ dbEvents = snap[1].events
            /\ repo[1] = EmptyRepo
            /\ tx[1] = NoTx

\* C24 witness: the call with an action id and no effective date on a stored
\* lot raised ValueError and left the repository empty.
C24_Witness ==
    /\ call[1].name = "calculate_composition"
    /\ IsLot(dbRows, call[1].lot_id)
    /\ call[1].action_id # NoId
    /\ call[1].effective_at = NoTime
    /\ call[1].out.err = "ValueError"
    /\ repo[1] = EmptyRepo
\* the record use case process 1 ran last, with an effective date
Backdated ==
    /\ call[1].name \in {"record_receive_volume", "record_blend_lot"}
    /\ call[1].eff # NoTime

\* the effective date of that call without its sub-second part
WholeSecond == (call[1].eff \div TicksPerSecond) * TicksPerSecond

\* C25: a record use case whose effective_at, cut to whole seconds, is later
\* than now - 2 seconds raises ValueError before it fetched anything and
\* leaves the rows and the event store as they were; one whose effective_at is
\* at most now - 2 seconds (or is so once cut to whole seconds) is not refused
\* for its date, and when it commits, the stored action and the stored events
\* carry the effective_at cut to whole seconds.
C25_EffectiveDatePolicy ==
    LET c == call[1]
        T == WholeSecond
        limit == now - FutureMargin * TicksPerSecond
        refused == err[1] = "ValueError" /\ loaded[1] = <<>>
        action == nextId - 1
    IN  Backdated =>
            /\ T > limit =>
                  /\ pc[1] \in {"raised", "idle"}
                  /\ refused
                  /\ dbRows = snap[1].rows
                  /\ dbEvents = snap[1].events
                  /\ tx[1] = NoTx
                  /\ pc[1] = "idle" => result[1] = "ValueError" /\ repo[1] = EmptyRepo
            /\ (c.eff <= limit \/ T <= limit) => ~refused
            /\ (pc[1] = "idle" /\ result[1] = "committed") =>
                  /\ T <= limit
                  /\ IsAction(dbRows, action)
                  /\ dbRows[action].effective_at = T
                  /\ \A r \in dbEvents \ snap[1].events :
                        IF r.store = "lot" THEN r.at = T /\ r.seq = action
                        ELSE r.agg = action /\ r.ev.eff = T

\* C25 witness: a blend recorded with an effective date half a second after a
\* whole second, two seconds before now, committed with the whole second.
C25_Witness ==
    /\ Backdated
    /\ call[1].name = "record_blend_lot"
    /\ call[1].eff = 1
    /\ WholeSecond = 0
    /\ now = 2 * TicksPerSecond
    /\ pc[1] = "idle"
    /\ result[1] = "committed"
    /\ dbRows[nextId - 1].effective_at = 0
    /\ \E r \in dbEvents \ snap[1].events : r.ev.kind = "VolumeBlended" /\ r.at = 0
\* C26: an iteration of cursor(qset, primary_key, tiebreaker_key, size) with
\* size >= 1 comes to its end, and by then it has yielded the rows in the
\* requested order, each row at most once, every row that was in the table
\* from the first page on, and no row that was inserted at a position it had
\* passed; this for tables shorter than, as long as and longer than a page,
\* and for rows sharing a primary key value when the tiebreaker is given.
C26_CursorIsExhaustive ==
    /\ [](pc[1] = "done" =>
            LET c == call[1]
                y == c.yielded
            IN  /\ \A i \in 1..(Len(y) - 1) : Precedes(y[i], y[i + 1], c)
                /\ \A i, j \in 1..Len(y) : y[i] = y[j] => i = j
                /\ c.first \subseteq Range(y)
                /\ Range(y) \subseteq Table
                /\ c.passed \cap Range(y) = {})
    /\ <>(pc[1] = "done")

\* C26 witness: three rows with the same primary key value and a page of two;
\* a row was inserted behind the cursor and the iteration ended after the
\* three rows.
C26_Witness ==
    /\ pc[1] = "done"
    /\ call[1].size = 2
    /\ call[1].tiebreaker
    /\ Cardinality(call[1].first) = 3
    /\ \A a \in call[1].first : a.key = 1
    /\ call[1].passed # {}
    /\ Len(call[1].yielded) = 3
\* what the subscribers have handled in p's present unit of work, in order
HandledFor(p) ==
    LET Mine(d) == d.proc = p /\ d.op = ops[p]
    IN  SelectSeq(delivered, Mine)

C28_BlendMovesExactVolumes ==
    (pc[1] = "idle" /\ result[1] = "committed" /\ call[1].name = "record_blend_lot")
    => LET c == call[1]
           before == snap[1].rows
           new == DOMAIN dbRows \ DOMAIN before
       IN  /\ \A s \in DOMAIN c.volumes :
                 dbRows[s].volume = before[s].volume - c.volumes[s]
           /\ dbRows[c.lot].volume = before[c.lot].volume + c.volume
           /\ \E a \in new :
                 /\ new = {a}
                 /\ dbRows[a].type = "action"
                 /\ dbRows[a].action_type = "BLEND"
                 /\ dbRows[a].lot = c.lot
                 /\ dbRows[a].volumes = c.volumes
                 /\ dbRows[a].vol = c.volume

\* the stored events of action `id` of the given kind
ActionEvents(id, kind) ==
    {x \in dbEvents : x.store = "action" /\ x.agg = id /\ x.ev.kind = kind}

\* C29: an action that has not been edited has revision_number 0 and no
\* deleted_at, and its details are the recorded ones; an action that has been
\* edited has as its revision_number the number of its edits and as its details
\* the values of the last edit; its id, action_type and effective_at are those
\* of its recording in either case.  (It holds when the edits follow one
\* another, as in SpecEdit; two edits that overlap both commit, and the second
\* writes the revision number it computed from the row it read.)
C29_RevisionCountsEdits ==
    \A id \in DOMAIN dbRows :
        dbRows[id].type = "action"
        => LET a == dbRows[id]
               edits == ActionEvents(id, "ActionEdited")
               Details(e) == <<e.lot, e.vol, IF Has(e, "volumes") THEN e.volumes ELSE <<>> >>
           IN  \E r \in ActionEvents(id, "ActionRecorded") :
                  /\ a.id = r.ev.agg
                  /\ a.effective_at = r.ev.eff
                  /\ a.action_type = IF Has(r.ev, "type") THEN r.ev.type
                                     ELSE "RECEIVE_VOLUME"
                  /\ a.revision_number = Cardinality(edits)
                  /\ edits = {}
                     => /\ a.deleted_at = NoTime
                        /\ <<a.lot, a.vol, a.volumes>> = Details(r.ev)
                  /\ \A last \in edits :
                        (\A x \in edits : x.rid <= last.rid)
                        => <<a.lot, a.vol, a.volumes>> = Details(last.ev)

\* C30: in every committed state every wine lot row has a volume of 0 or more.
C30_VolumesNeverNegative ==
    \A id \in DOMAIN dbRows : dbRows[id].type = "lot" => dbRows[id].volume >= 0

\* the event kinds that carry an action_id (ActionSequenced)
ActionSequencedKinds == {"VolumeReceived", "VolumeMoved", "VolumeBlended"}

\* C31: in every committed state, a wine lot event row with a sequence_number
\* refers to a stored action with that id whose effective_at is the row's
\* occurred_at, so that the rows one action caused share (occurred_at,
\* sequence_number); a row of a kind that is not action-sequenced has no
\* sequence_number, and a row of an action-sequenced kind has one.
C31_SequenceNumberIsActionId ==
    \A x \in dbEvents :
        x.store = "lot"
        => /\ x.seq # NoSeq
              => /\ IsAction(dbRows, x.seq)
                 /\ dbRows[x.seq].effective_at = x.at
                 /\ \A y \in dbEvents : (y.store = "lot" /\ y.seq = x.seq) => y.at = x.at
           /\ (x.ev.kind \in ActionSequencedKinds) = (x.seq # NoSeq)

\* C31 witness: a backdated blend from two source lots has committed, and its
\* three event rows carry the action's id and its effective date, which is
\* earlier than the time of the insert.
C31_Witness ==
    /\ pc[1] = "idle"
    /\ result[1] = "committed"
    /\ call[1].name = "record_blend_lot"
    /\ \E a \in DOMAIN dbRows \ DOMAIN snap[1].rows :
          /\ dbRows[a].effective_at < now
          /\ Cardinality({x \in dbEvents : x.store = "lot" /\ x.seq = a}) = 3

\* C32: two fetches of an aggregate's events return the same sequence, which
\* lists every row once by occurred_at ascending, then rows without a
\* sequence_number before the others, then sequence_number ascending, then id
\* ascending; of two different rows exactly one comes before the other; and
\* reverse() returns that sequence backwards.
C32_CanonicalOrderIsTotal ==
    call[1].name = "fetch"
    => LET q == call[1].first
           n == Len(q)
       IN  /\ call[1].second = q
           /\ Range(q) = dbEvents /\ n = Cardinality(dbEvents)
           /\ \A i \in 1..(n - 1) :
                 LET a == q[i]
                     b == q[i + 1]
                 IN  \/ a.at < b.at
                     \/ a.at = b.at /\ a.seq = NoSeq /\ b.seq # NoSeq
                     \/ a.at = b.at /\ a.seq # NoSeq /\ b.seq # NoSeq /\ a.seq < b.seq
                     \/ a.at = b.at /\ a.seq = b.seq /\ a.rid < b.rid
           /\ \A a, b \in dbEvents : a # b => (RowBefore(a, b) = ~RowBefore(b, a))
           /\ call[1].reversed = [i \in 1..n |-> q[n + 1 - i]]

\* C32 witness: three rows with the same occurred_at were fetched, one without
\* a sequence_number and two with the same one.
C32_Witness ==
    /\ call[1].name = "fetch"
    /\ Len(call[1].first) = 3
    /\ call[1].first[1].seq = NoSeq
    /\ call[1].first[2].seq = call[1].first[3].seq
    /\ \A x, y \in dbEvents : x.at = y.at

\* p's unit of work is a backdated record with an accepted date on stored
\* lots, and the stored history of one of the lots, replayed up to a second
\* after the effective date, holds an event that its context validator refuses
PriorEventsRefused(p) ==
    LET c == call[p]
        rows == snap[p].rows
        ids == IF c.name = "record_blend_lot" THEN {c.lot} \cup DOMAIN c.volumes
               ELSE {c.lot}
    IN  /\ c.name \in {"record_receive_volume", "record_blend_lot"}
        /\ c.eff # NoTime
        /\ Trunc(c.eff) <= now - FutureMargin * TicksPerSecond
        /\ \A id \in ids : IsLot(rows, id)
        /\ \E id \in ids :
              ReplayError(Identity(FromRow(rows[id])),
                          Ordered(TimeWindow(EventsOf(snap[p].events, "lot", id),
                                             Trunc(c.eff) + TicksPerSecond))) # ""

\* p's unit of work is a backdated receipt with an accepted date into a stored
\* lot whose prior events load, and a stored event after the effective date is
\* refused by its context validator when it is reapplied after the receipt
DownstreamEventRefused(p) ==
    LET c == call[p]
        rows == snap[p].rows
        t == Trunc(c.eff)
        all == EventsOf(snap[p].events, "lot", c.lot)
        before == FoldRows(Identity(FromRow(rows[c.lot])),
                           Ordered(TimeWindow(all, t + TicksPerSecond)))
        received == LoadEvent(before, VolumeReceived(0, c.lot, NoId, t, c.volume))
    IN  /\ c.name = "record_receive_volume"
        /\ c.eff # NoTime
        /\ t <= now - FutureMargin * TicksPerSecond
        /\ IsLot(rows, c.lot)
        /\ ~PriorEventsRefused(p)
        /\ before.deleted_at = NoTime
        /\ ReplayError(received, Ordered({x \in all : x.at > t})) # ""

C34_EditFoldsEveryEventOnce ==
    \A p \in Procs :
        EditCommitted(p)
        => \A id \in {snap[p].rows[call[p].action].lot, call[p].lot} :
              /\ dbRows[id].volume = FullFold(id).volume
              /\ dbRows[id].deleted_at = FullFold(id).deleted_at

\* ------------------------------------- instances kept across units of work
\* The caller keeps the WineLot instances its scopes created (a module-level
\* or request-level reference) and calls their mutators in later scopes; the
\* instances keep their _recorded_events, the singleton is cleared at each exit.

\* lot.destroy() or lot.receive_volume(action_id, now, 1) on a kept instance
BodyMutateKept(p) ==
    /\ pc[p] = "body"
    /\ \E id \in DOMAIN heap[p], kind \in {"destroy", "receive_volume"} :
          LET lot == heap[p][id]
              e == IF kind = "destroy" THEN WineLotDeleted(nextEv, id, now)
                   ELSE VolumeReceived(nextEv, id, nextId, now, 1)
              out == Apply(repo[p], lot, e)
              c == [name |-> kind, lot |-> id]
          IN  IF lot.deleted_at # NoTime
              THEN BodyDone(p, Outcome(repo[p], heap[p], nextId, nextEv, "ValueError",
                                       <<>>), c)
              ELSE BodyDone(p, Outcome(out.repo, Put(heap[p], id, out.inst), nextId,
                                       nextEv + 1, out.err, <<>>), c)

\* the exception leaves the scope (clear(), rollback); the caller's references stay
UnwindKept(p) ==
    /\ pc[p] = "raised"
    /\ repo' = [repo EXCEPT ![p] = EmptyRepo]
    /\ tx' = [tx EXCEPT ![p] = NoTx]
    /\ result' = [result EXCEPT ![p] = err[p]]
    /\ pc' = [pc EXCEPT ![p] = "idle"]
    /\ UNCHANGED <<now, nextId, nextRid, nextEv, dbRows, dbEvents, idx, heap, err, ops,
                   call, snap, loaded, raced, delivered, trace>>

\* the scope commits; the caller's references stay
CommitKept(p) ==
    /\ pc[p] = "commit"
    /\ dbRows' = [id \in DOMAIN dbRows \cup DOMAIN tx[p].rows |->
                     IF Has(tx[p].rows, id) THEN tx[p].rows[id] ELSE dbRows[id]]
    /\ dbEvents' = {x \in dbEvents : x.rid \notin tx[p].deleted} \cup Range(tx[p].appended)
    /\ tx' = [tx EXCEPT ![p] = NoTx]
    /\ result' = [result EXCEPT ![p] = "committed"]
    /\ pc' = [pc EXCEPT ![p] = "idle"]
    /\ UNCHANGED <<now, nextId, nextRid, nextEv, idx, repo, heap, err, ops, call, snap,
                   loaded, raced, delivered, trace>>

InitKept ==
    /\ now = 1
    /\ nextId = 1
    /\ nextRid = 1
    /\ nextEv = 1
    /\ dbRows = <<>>
    /\ dbEvents = {}
    /\ snap = [p \in Procs |-> [rows |-> <<>>, events |-> {}]]
    /\ InitProcs([p \in Procs |-> IF p = 1 THEN 0 ELSE MaxOps])

NextKept ==
    \/ Tick
    \/ Enter(1)
    \/ BodyCreateLot(1)
    \/ BodyMutateKept(1)
    \/ UnwindKept(1)
    \/ PersistAggregate(1)
    \/ StoreEvents(1)
    \/ StoreFail(1)
    \/ DeleteEvents(1)
    \/ DispatchOne(1)
    \/ DispatchFail(1)
    \/ Clear(1)
    \/ CommitKept(1)

SpecKept == InitKept /\ [][NextKept]_vars

\* C35: every event passed to apply has at most one row in the event store,
\* and no event that a committed scope stored (and so dispatched) is handed to
\* a subscriber again by a later scope, nor twice within a scope, also when
\* the instance is one the caller kept from an earlier scope.
C35_EachEventStoredAndDispatchedOnce ==
    /\ \A x, y \in dbEvents : x.ev.n = y.ev.n => x = y
    /\ \A i \in 1..Len(delivered) :
          /\ ~\E x \in snap[delivered[i].proc].events : x.ev.n = delivered[i].n
          /\ \A j \in 1..Len(delivered) :
                (/\ delivered[j].proc = delivered[i].proc
                 /\ delivered[j].n = delivered[i].n
                 /\ delivered[j].sub = delivered[i].sub) => j = i

\* ------------------------------------------------------------ nested scopes
\* A decorated function whose body buffers an event and then calls another
\* decorated function.  call[p] keeps the frame: depth 2 while the inner scope
\* is active, the events the outer body had buffered when it was entered, and
\* the savepoint the inner atomic() set.
Depth(p) == IF Has(call[p], "depth") THEN call[p].depth ELSE 1

\* the outer body runs WineLot.create and calls the inner function:
\* AggregateRepository() returns the singleton as it is, atomic() sets a savepoint
EnterNested(p) ==
    /\ pc[p] = "body"
    /\ call[p].name = "none"
    /\ LET out == WineLotCreate(repo[p], heap[p], nextId, nextEv)
       IN  /\ repo' = [repo EXCEPT ![p] = out.repo]
           /\ heap' = [heap EXCEPT ![p] = out.heap]
           /\ nextId' = out.nextId
           /\ nextEv' = out.nextEv
           /\ call' = [call EXCEPT ![p] = [name |-> "nested", depth |-> 2,
                                           held |-> out.repo.events,
                                           savepoint |-> tx[p]]]
    /\ UNCHANGED <<now, nextRid, dbRows, dbEvents, pc, idx, tx, err, result, ops, snap,
                   loaded, raced, delivered, trace>>

\* the inner body: WineLot.create with a code that _validate_code accepts or not
BodyNestedCreate(p) ==
    /\ pc[p] = "body"
    /\ call[p].name = "nested"
    /\ \E valid \in BOOLEAN :
          BodyDone(p, IF valid THEN WineLotCreate(repo[p], heap[p], nextId, nextEv)
                      ELSE Outcome(repo[p], heap[p], nextId, nextEv, "ValueError", <<>>),
                   [call[p] EXCEPT !.name = "create"])

\* the inner persist() has returned: the savepoint is released and the inner
\* function returns to the outer body
ExitNested(p) ==
    /\ pc[p] = "commit"
    /\ Depth(p) = 2
    /\ pc' = [pc EXCEPT ![p] = "body"]
    /\ call' = [call EXCEPT ![p] = [@ EXCEPT !.name = "resumed", !.depth = 1]]
    /\ UNCHANGED <<now, nextId, nextRid, nextEv, dbRows, dbEvents, idx, repo, heap, tx,
                   err, result, ops, snap, loaded, raced, delivered, trace>>

\* the exception leaves the inner scope: clear(), rollback to the savepoint,
\* then the outer body catches it or lets it pass
UnwindNested(p) ==
    /\ pc[p] = "raised"
    /\ Depth(p) = 2
    /\ repo' = [repo EXCEPT ![p] = EmptyRepo]
    /\ tx' = [tx EXCEPT ![p] = call[p].savepoint]
    /\ \E caught \in BOOLEAN :
          /\ pc' = [pc EXCEPT ![p] = IF caught THEN "body" ELSE "raised"]
          /\ err' = [err EXCEPT ![p] = IF caught THEN "" ELSE @]
          /\ call' = [call EXCEPT ![p] =
                         [@ EXCEPT !.name = IF caught THEN "resumed" ELSE "passed",
                                   !.depth = 1]]
    /\ UNCHANGED <<now, nextId, nextRid, nextEv, dbRows, dbEvents, idx, heap, result,
                   ops, snap, loaded, raced, delivered, trace>>

\* the outer body goes on after the inner call, creates one more lot or none,
\* and returns; persist() on an empty repository has only clear() to do
BodyResumed(p) ==
    /\ pc[p] = "body"
    /\ call[p].name = "resumed"
    /\ \E more \in BOOLEAN :
          LET c == [call[p] EXCEPT !.name = "returned"]
              out == IF more THEN WineLotCreate(repo[p], heap[p], nextId, nextEv)
                     ELSE Outcome(repo[p], heap[p], nextId, nextEv, "", <<>>)
          IN  IF Len(out.repo.keys) > 0
              THEN BodyDone(p, out, c)
              ELSE /\ pc' = [pc EXCEPT ![p] = "clear"]
                   /\ idx' = [idx EXCEPT ![p] = 1]
                   /\ call' = [call EXCEPT ![p] = c]
                   /\ UNCHANGED <<now, nextId, nextRid, nextEv, dbRows, dbEvents, repo,
                                  heap, tx, err, result, ops, snap, loaded, raced,
                                  delivered, trace>>

\* the outer scope's exits
CommitOuter(p) == Depth(p) = 1 /\ Commit(p)

UnwindOuter(p) == Depth(p) = 1 /\ Unwind(p)

InitNested ==
    /\ now = 1
    /\ nextId = 1
    /\ nextRid = 1
    /\ nextEv = 1
    /\ dbRows = <<>>
    /\ dbEvents = {}
    /\ snap = [p \in Procs |-> [rows |-> <<>>, events |-> {}]]
    /\ InitProcs([p \in Procs |-> IF p = 1 THEN 0 ELSE MaxOps])

NextNested ==
    \/ Enter(1)
    \/ EnterNested(1)
    \/ BodyNestedCreate(1)
    \/ ExitNested(1)
    \/ UnwindNested(1)
    \/ BodyResumed(1)
    \/ PersistAggregate(1)
    \/ StoreEvents(1)
    \/ StoreFail(1)
    \/ DeleteEvents(1)
    \/ DispatchOne(1)
    \/ DispatchFail(1)
    \/ Clear(1)
    \/ CommitOuter(1)
    \/ UnwindOuter(1)

SpecNested == InitNested /\ [][NextNested]_vars

\* the events the outer body had buffered when the inner scope was entered
HeldEvents(p) == IF Has(call[p], "held") THEN Range(call[p].held) ELSE {}

\* C36: an event the outer scope buffered before a nested scope was entered is
\* not written or dispatched while the nested scope is active, is still
\* buffered when the outer body resumes after the nested scope's commit or
\* failure, and is stored and dispatched once the outer scope has committed.
C36_NestedExitTouchesOnlyItsOwnEvents ==
    \A p \in Procs : \A e \in HeldEvents(p) :
        /\ Depth(p) = 2 =>
              /\ ~\E i \in 1..Len(delivered) :
                     delivered[i].proc = p /\ delivered[i].n = e.n
              /\ ~\E x \in Range(tx[p].appended) : x.ev.n = e.n
              /\ ~Has(tx[p].rows, e.agg)
        /\ (pc[p] = "body" /\ call[p].name = "resumed") =>
              Count(e, repo[p].events) = 1
        /\ (pc[p] = "idle" /\ result[p] = "committed") =>
              /\ \E x \in dbEvents : x.ev.n = e.n
              /\ \A sub \in Range(Subscribers) :
                    \E i \in 1..Len(delivered) :
                        /\ delivered[i].proc = p
                        /\ delivered[i].n = e.n
                        /\ delivered[i].sub = sub

\* the lot has a committed WineLotDeleted event
DeletionCommitted(id) ==
    \E x \in dbEvents : x.store = "lot" /\ x.agg = id /\ x.ev.kind = "WineLotDeleted"

\* C37: once a lot's WineLotDeleted event is committed, no step changes the
\* lot's persisted deleted_at (which is set) or volume, or the set of events
\* stored for the lot, whatever use case runs and whatever effective date it
\* is given.
C37_DeletedLotIsFrozen ==
    [][\A id \in DOMAIN dbRows :
           DeletionCommitted(id) =>
               /\ dbRows[id].deleted_at # NoTime
               /\ dbRows'[id].deleted_at = dbRows[id].deleted_at
               /\ dbRows'[id].volume = dbRows[id].volume
               /\ {x \in dbEvents' : x.store = "lot" /\ x.agg = id}
                      = {x \in dbEvents : x.store = "lot" /\ x.agg = id}]_vars

\* ------------------------------------------------ the methods of an Action
\* One scope in which process 1 has recorded an action of each type (the
\* instances the record_* factories returned, registered with the repository)
\* and goes on to call destroy and the edit methods on them.
ActionTypes == <<"RECEIVE_VOLUME", "REMEASURE", "BLEND", "BOTTLE">>

EditMethods == {"edit_receive_volume", "edit_remeasure", "edit_blend", "edit_bottle"}

\* the action_type an edit method asks for
EditedType(method) ==
    CASE method = "edit_receive_volume" -> "RECEIVE_VOLUME"
      [] method = "edit_remeasure" -> "REMEASURE"
      [] method = "edit_blend" -> "BLEND"
      [] method = "edit_bottle" -> "BOTTLE"

\* the ActionRecorded event of Action.record_<type>
RecordedAs(n, id, type) ==
    IF type = "BLEND" THEN BlendRecorded(n, id, 1, 1, 1, 2 :> 1)
    ELSE [type |-> type] @@ ActionRecorded(n, id, 1, 1, 1)

\* Action.destroy
ActionDestroy(r, action, nev, clock) ==
    IF action.deleted_at # NoTime
    THEN [inst |-> action, repo |-> r, err |-> "ValueError"]
    ELSE Apply(r, action, ActionDeleted(nev, action.id, clock))

\* a mutant of ActionEdit: the edit methods do not look at deleted_at
ActionEditIgnoresDeletion(r, action, method, nev, clock, lot_id, volume, volumes) ==
    IF action.action_type # EditedType(method)
    THEN [inst |-> action, repo |-> r, err |-> "ValueError"]
    ELSE Apply(r, action, [volumes |-> IF method = "edit_blend" THEN volumes ELSE <<>>]
                          @@ ActionEdited(nev, action.id, clock, lot_id, volume))

\* Action.edit_receive_volume, edit_remeasure, edit_blend, edit_bottle
ActionEdit(r, action, method, nev, clock, lot_id, volume, volumes) ==
    LET refused == [inst |-> action, repo |-> r, err |-> "ValueError"]
        total_moved_volume == Total(volumes, DOMAIN volumes)
        event == [volumes |-> IF method = "edit_blend" THEN volumes ELSE <<>>]
                 @@ ActionEdited(nev, action.id, clock, lot_id, volume)
    IN  IF action.action_type # EditedType(method) THEN refused
        ELSE IF action.deleted_at # NoTime THEN refused
        ELSE IF method = "edit_blend" /\ volume <= 0 THEN refused
        ELSE IF method = "edit_blend" /\ total_moved_volume = 0 THEN refused
        ELSE Apply(r, action, event)

InitAction ==
    LET a == [i \in 1..4 |-> ApplyInst(NewAction, RecordedAs(i, 3 + i, ActionTypes[i]))]
    IN  /\ now = 1
        /\ nextId = 8
        /\ nextRid = 1
        /\ nextEv = 5
        /\ dbRows = <<>>
        /\ dbEvents = {}
        /\ snap = [p \in Procs |-> [rows |-> <<>>, events |-> {}]]
        /\ pc = [p \in Procs |-> IF p = 1 THEN "body" ELSE "idle"]
        /\ idx = [p \in Procs |-> 1]
        /\ tx = [p \in Procs |-> NoTx]
        /\ err = [p \in Procs |-> ""]
        /\ result = [p \in Procs |-> "none"]
        /\ ops = [p \in Procs |-> IF p = 1 THEN 0 ELSE MaxOps]
        /\ call = [p \in Procs |-> [name |-> "none"]]
        /\ loaded = [p \in Procs |-> <<>>]
        /\ raced = [p \in Procs |-> {}]
        /\ trace = [p \in Procs |-> <<>>]
        /\ delivered = <<>>
        /\ heap = [p \in Procs |-> IF p = 1 THEN a ELSE <<>>]
        /\ repo = [p \in Procs |->
                      IF p = 1
                      THEN RepoAdd(RepoAdd(RepoAdd(RepoAdd(EmptyRepo, a[1]), a[2]), a[3]),
                                   a[4])
                      ELSE EmptyRepo]

\* action.destroy()
CallDestroy ==
    \E slot \in 1..4 :
        LET out == ActionDestroy(repo[1], heap[1][slot], nextEv, now)
        IN  /\ Returned([name |-> "destroy"], slot, out.inst, out.repo, dbRows, out.err)
            /\ nextEv' = IF out.err = "" THEN nextEv + 1 ELSE nextEv

\* action.edit_<type>(...)
CallEdit ==
    \E slot \in 1..4, method \in EditMethods, volume \in 0..1, moved \in 0..1 :
        LET out == ActionEdit(repo[1], heap[1][slot], method, nextEv, now, 3, volume,
                              2 :> moved)
        IN  /\ Returned([name |-> method], slot, out.inst, out.repo, dbRows, out.err)
            /\ nextEv' = IF out.err = "" THEN nextEv + 1 ELSE nextEv

NextAction == CallDestroy \/ CallEdit

SpecAction == InitAction /\ [][NextAction]_vars

\* the instance the last call was made on, as it was before the call
Receiver == call[1].before.heap[call[1].slot]

\* the call is one the Action refuses: an edit of another type than the
\* action's, or any edit or destroy of a deleted action
Refusable ==
    /\ call[1].name \in EditMethods \cup {"destroy"}
    /\ \/ Receiver.deleted_at # NoTime
       \/ call[1].name \in EditMethods /\ Receiver.action_type # EditedType(call[1].name)

\* C38: an edit method of another type than the action's, and any edit method
\* or destroy on a deleted action, raises ValueError and leaves the action as
\* it was (details, revision_number, updated_at, deleted_at, recorded events)
\* and the repository as it was.
C38_RefusedActionCallChangesNothing ==
    Refusable =>
        /\ err[1] = "ValueError"
        /\ heap[1][call[1].slot] = Receiver
        /\ repo[1] = call[1].before.repo

\* an edit of the right type on an action that an earlier destroy has deleted
C38_Witness ==
    /\ call[1].name \in EditMethods
    /\ Receiver.action_type = EditedType(call[1].name)
    /\ Receiver.deleted_at # NoTime
    /\ Len(Receiver.recorded) = 2
    /\ err[1] = "ValueError"
    /\ repo[1] = call[1].before.repo

\* ---------------------------------------------------- rebuild_aggregates
\* The stored history of SpecReplay with rows that have drifted from it: the
\* volume columns of the lots hold any value.  The first blend is recorded
\* after the receipts or backdated to the second before them, which
\* record_blend_lot accepts (SpecCellar).  rebuild_aggregates is called once,
\* for the lots or for the actions.
MaxChunk == 3

\* the page size of cursor(all_instances, "pk")
PageSize == 2

\* the rows cursor() yields from the page `results` on, each page fetched
\* when the one before it is used up
RECURSIVE CursorRest(_, _, _)
CursorRest(S, c, results) ==
    LET head == SubSeq(results, 1, IF Len(results) < c.size THEN Len(results) ELSE c.size)
    IN  IF Len(results) > c.size
        THEN head \o CursorRest(S, c, Page({x \in S : Beyond(x, LastUsed(results), c)}, c))
        ELSE head

\* cursor(all_instances, "pk"): ordered by pk, no tiebreaker
CursorByPk(S) ==
    LET c == [size |-> PageSize, tiebreaker |-> FALSE, primary_desc |-> FALSE,
              tiebreaker_desc |-> FALSE]
        keyed == {[key |-> r.id] @@ r : r \in S}
    IN  CursorRest(keyed, c, Page(keyed, c))

\* lib.iter.chunk
RECURSIVE Chunk(_, _)
Chunk(s, size) ==
    IF Len(s) = 0 THEN <<>>
    ELSE IF Len(s) < size THEN <<s>>
    ELSE <<SubSeq(s, 1, size)>> \o Chunk(SubSeq(s, size + 1, Len(s)), size)

\* for instance in rebuilt_instances.values(): instance.persist(), inside atomic()
RECURSIVE PersistAll(_, _)
PersistAll(insts, rows) ==
    IF insts = <<>> THEN [rows |-> rows, err |-> ""]
    ELSE LET out == PersistInst(Head(insts), rows)
         IN  IF out.err # "" THEN [rows |-> rows, err |-> out.err]
             ELSE PersistAll(Tail(insts), out.rows)

RebuildFrame ==
    UNCHANGED <<now, nextId, nextRid, nextEv, dbEvents, idx, repo, heap, tx, err, snap,
                loaded, raced, delivered, trace>>

\* rebuild_aggregates(model_class, chunk_size=...) up to the first chunk
RebuildOpen ==
    /\ pc[1] = "idle"
    /\ ops[1] = 0
    /\ \E model \in {"lot", "action"}, chunk_size \in 1..MaxChunk :
          LET all_instances == {dbRows[id] : id \in {i \in DOMAIN dbRows :
                                                        dbRows[i].type = model}}
          IN  call' = [call EXCEPT ![1] =
                          [name |-> "rebuild_aggregates", model |-> model,
                           chunk_size |-> chunk_size, index |-> 1, persisted |-> <<>>,
                           chunks |-> Chunk(CursorByPk(all_instances), chunk_size)]]
    /\ pc' = [pc EXCEPT ![1] = "rebuild"]
    /\ ops' = [ops EXCEPT ![1] = 1]
    /\ UNCHANGED <<dbRows, result>>
    /\ RebuildFrame

\* one pass of the loop: the chunk's identities, their events loaded in the
\* order of the event model, and the chunk persisted in one transaction
RebuildChunk ==
    /\ pc[1] = "rebuild"
    /\ call[1].index <= Len(call[1].chunks)
    /\ LET chunk_instances == call[1].chunks[call[1].index]
           n == Len(chunk_instances)
           events(i) == Ordered(EventsOf(dbEvents, call[1].model, chunk_instances[i].id))
           identity(i) == Identity(FromRow(chunk_instances[i]))
           rebuilt == [i \in 1..n |-> FoldRows(identity(i), events(i))]
           refused == {i \in 1..n : ReplayError(identity(i), events(i)) # ""}
           out == PersistAll(rebuilt, dbRows)
       IN  IF refused # {}
           THEN /\ result' = [result EXCEPT ![1] = "ValueError"]
                /\ pc' = [pc EXCEPT ![1] = "idle"]
                /\ UNCHANGED <<dbRows, call>>
           ELSE IF out.err # ""
           THEN /\ result' = [result EXCEPT ![1] = out.err]
                /\ pc' = [pc EXCEPT ![1] = "idle"]
                /\ UNCHANGED <<dbRows, call>>
           ELSE /\ dbRows' = out.rows
                /\ call' = [call EXCEPT ![1].index = @ + 1,
                                        ![1].persisted =
                                            @ \o [i \in 1..n |-> chunk_instances[i].id]]
                /\ UNCHANGED <<pc, result>>
    /\ UNCHANGED ops
    /\ RebuildFrame

\* the database refuses an UPDATE of the chunk: atomic() rolls the chunk back
\* and the exception leaves rebuild_aggregates
RebuildChunkFails ==
    /\ pc[1] = "rebuild"
    /\ call[1].index <= Len(call[1].chunks)
    /\ result' = [result EXCEPT ![1] = "DatabaseError"]
    /\ pc' = [pc EXCEPT ![1] = "idle"]
    /\ UNCHANGED <<dbRows, call, ops>>
    /\ RebuildFrame

\* the generator is exhausted: rebuild_aggregates returns
RebuildReturn ==
    /\ pc[1] = "rebuild"
    /\ call[1].index > Len(call[1].chunks)
    /\ result' = [result EXCEPT ![1] = "returned"]
    /\ pc' = [pc EXCEPT ![1] = "idle"]
    /\ UNCHANGED <<dbRows, call, ops>>
    /\ RebuildFrame

InitRebuild ==
    /\ now = MaxTime
    /\ nextId = 8
    /\ nextRid = 15
    /\ nextEv = 15
    /\ \E x \in {0} \cup (TicksPerSecond..MaxTime), y \in TicksPerSecond..MaxTime,
          d \in {NoTime, MaxTime}, volume \in [Lots -> 0..2] :
          /\ x <= y
          /\ dbRows = [id \in DOMAIN HistoryRows(TicksPerSecond, TicksPerSecond, x, y, d) |->
                          IF id \in Lots
                          THEN [HistoryRows(TicksPerSecond, TicksPerSecond, x, y, d)[id]
                                    EXCEPT !.volume = volume[id]]
                          ELSE HistoryRows(TicksPerSecond, TicksPerSecond, x, y, d)[id]]
          /\ dbEvents = HistoryEvents(TicksPerSecond, TicksPerSecond, x, y, d)
    /\ snap = [p \in Procs |-> [rows |-> dbRows, events |-> dbEvents]]
    /\ InitProcs([p \in Procs |-> IF p = 1 THEN 0 ELSE MaxOps])

NextRebuild == RebuildOpen \/ RebuildChunk \/ RebuildChunkFails \/ RebuildReturn

SpecRebuild == InitRebuild /\ [][NextRebuild]_vars

\* the ids of the first n chunks, in order
RECURSIVE IdsOfChunks(_, _)
IdsOfChunks(chunks, n) ==
    IF n = 0 THEN <<>>
    ELSE IdsOfChunks(chunks, n - 1) \o [i \in 1..Len(chunks[n]) |-> chunks[n][i].id]

\* C39: rebuild_aggregates persists the aggregates of the model chunk by
\* chunk, each chunk of chunk_size aggregates but the last, which has between
\* one and chunk_size; it stops before the last chunk only when persisting a
\* chunk fails, and every aggregate is persisted exactly once when it returns;
\* a persisted row holds the fold of its whole history in canonical order
\* onto identity(); and when a chunk fails, its rows and those of the later
\* chunks are as they were while the rows of earlier chunks stay rebuilt.
C39_RebuildCoversEveryAggregateOnce ==
    call[1].name = "rebuild_aggregates" =>
        LET c == call[1]
            ids == {id \in DOMAIN dbRows : dbRows[id].type = c.model}
            done == IF c.index - 1 < Len(c.chunks) THEN c.index - 1 ELSE Len(c.chunks)
        IN  /\ \A k \in 1..Len(c.chunks) :
                  /\ Len(c.chunks[k]) >= 1
                  /\ Len(c.chunks[k]) <= c.chunk_size
                  /\ k < Len(c.chunks) => Len(c.chunks[k]) = c.chunk_size
            /\ c.persisted = IdsOfChunks(c.chunks, done)
            /\ \A i, j \in 1..Len(c.persisted) : c.persisted[i] = c.persisted[j] => i = j
            /\ \A id \in ids :
                  IF id \in Range(c.persisted)
                  THEN Fields(dbRows[id]) = Fields(FullFold(id))
                  ELSE dbRows[id] = snap[1].rows[id]
            /\ \A id \in DOMAIN dbRows \ ids : dbRows[id] = snap[1].rows[id]
            /\ (pc[1] = "idle" /\ result[1] = "returned") => Range(c.persisted) = ids
            /\ (pc[1] = "idle" /\ c.index <= Len(c.chunks)) =>
                  result[1] \in {"DatabaseError", "OutOfDateVersion"}
====
